---- MODULE Spec2Model ----
(***************************************************************************)
(* ClipGen inference worker: the pod work coordinator (file lock), the     *)
(* shard creation that runs under it, and the multi-rank pipeline          *)
(* orchestrator.                                                           *)
(***************************************************************************)
EXTENDS Integers, FiniteSets, Sequences, TLC

(* ------------------------------ bounds --------------------------------- *)
\* pods that call coordinate_pod_work on the same (work_dir, lock_name)
NProcs == 3
\* invocations of coordinate_pod_work, all pods together
MaxCalls == 3
\* max_wait_seconds and check_interval_seconds of a call, scaled down
max_wait_seconds == 2
check_interval_seconds == 1

\* pods that call create_shards on the same shards_dir
NPods == 3

\* threads that call the pipeline (MochiModel.generate runs it in a thread)
NCallers == 2
\* calls of the pipeline, all threads together
MaxRequests == 2

\* MAX_CONCURRENT_JOBS of the worker, and the messages the queue delivers
max_concurrent_jobs == 2
NMessages == 3

\* context-parallel ranks, frames a rank holds, frames passed between ranks
MaxCpSize == 3
MaxT == 2
MaxSend == 2

\* the longest index list handed to pack_cat_gather
MaxIndices == 3

\* the largest height and width of a decoded tile
MaxTile == 3

Procs == 1..NProcs
Pods == 1..NPods
\* world_size of sharding.py (lines 77 and 118)
world_size == 2
Ranks == 0..(world_size - 1)
\* contexts of MochiDualGPUPipeline: ray.init(num_gpus=2), range(2)
num_gpus == 2
Ctxs == 0..(num_gpus - 1)
Callers == 1..NCallers
Messages == 1..NMessages
\* request arguments (**kwargs) a call may carry
Kwargs == {"prompt_a", "prompt_b"}
\* open(lock_file, 'w') creates at most one inode per invocation
MaxInodes == MaxCalls
Inodes == 1..MaxInodes

\* Exceptions do_work may raise.  IOError is OSError in Python 3, so
\* "OSError" stands for every exception `except IOError` catches
\* (FileNotFoundError, ConnectionError, TimeoutError, ...) and
\* "RuntimeError" for every other Exception.
WorkErrors == {"OSError", "RuntimeError"}

VARIABLES
    pc,             \* pc[p]: where pod p is inside coordinate_pod_work
    work_complete,  \* what is_work_complete() returns (generic work)
    dir_exists,     \* work_dir exists
    lock_file,      \* inode the path work_dir/.{lock_name}.lock names, 0: no file
    inodes,         \* inodes created so far for that path
    flock,          \* flock[i]: pod holding LOCK_EX on inode i, 0: nobody
    f,              \* f[p]: inode of the file object pod p has open, 0: none
    locked,         \* locked[p]: this call's flock() succeeded
    waited,         \* waited[p]: _wait_for_pod_work_completion's counter
    exc,            \* exc[p]: exception propagating out of the call
    outcome,        \* outcome[p]: how p's last finished call ended
    path,           \* path[p]: branch by which p's current/last call went
    raised,         \* raised[p]: exception do_work raised in this call
    calls,          \* invocations made so far
    runs,           \* number of do_work executions started
    metadata,       \* shards_dir/.metadata exists
    rank_files,     \* ranks r whose shards_dir/__{r}_0.distcp exists
    saved,          \* saved[p]: ranks whose extract_dit_shard wrote, this run
    meta_saved,     \* meta_saved[p]: this run's dcp.save wrote .metadata
    caller_pc,      \* caller_pc[c]: where thread c is inside __call__
    call_id,        \* call_id[c]: the number of c's present call
    kwargs,         \* kwargs[c]: the request arguments of c's call
    queue,          \* queue[r]: tasks submitted to context r, in order
    running,        \* running[r]: the task context r executes
    phase,          \* phase[r]: how far running[r] has got
    started,        \* started[r]: the calls context r has started, in order
    refs,           \* refs[c][r]: the ObjectRef of c's task on context r
    requests,       \* calls of the pipeline made so far
    init_pc,        \* where MochiModel.initialize is
    init_outcome,   \* how MochiModel.initialize ended
    pipeline,       \* MochiModel.pipeline: "None" or "pipeline"
    initialized,    \* MochiModel._initialized
    ray_up,         \* ray.init() done and no ray.shutdown() since
    ctx_stage,      \* ctx_stage[r]: how far the actor of rank r has got
    loaded,         \* loaded[r]: what DualGPUContext.__init__ did, in order
    gen_outcome,    \* gen_outcome[c]: how c's last generate() ended
    worker_running, \* SpeechfaceWorker.running
    current_jobs,   \* SpeechfaceWorker.current_jobs
    job_pc,         \* job_pc[m]: where _process_message(m) is
    body_ok,        \* body_ok[m]: json.loads(Body) gives jobId and userId
    job_status,     \* job_status[m]: status of m's job in the job table
    job_error,      \* job_error[m]: errorMessage of m's job in the job table
    failed_with,    \* failed_with[m]: the exception the handler caught
    swallowed,      \* swallowed[m]: the exception lines 191-193 caught
    deletes,        \* deletes[m]: delete_message calls made for m
    errors,         \* JOBS_PROCESSED{status=error}
    successes,      \* JOBS_PROCESSED{status=success}
    cp_op,          \* the function of the VAE the ranks are running
    cp_size,        \* cp.get_cp_rank_size()[1]
    frames_to_send, \* the argument of cp_pass_frames
    cp_x,           \* cp_x[r]: the tensor rank r passes in, as its frames
    cp_pc,          \* cp_pc[r]: where rank r is in the function
    cp_out,         \* cp_out[r]: what the function gave rank r
    chan,           \* chan[r]: frames sent to rank r and not yet received
    cp_sent,        \* cp_sent[r]: dist.send calls rank r has made
    cp_recv,        \* cp_recv[r]: dist.recv calls rank r has completed
    TRITON_PACK,    \* os.environ.get("TRITON_PACK", "1")
    HAS_TRITON,     \* whether "import triton" succeeds
    USE_TRITON_PACK,\* the module constant of triton_pack.py
    pk_pc,          \* where the caller of triton_pack.py is
    shape,          \* [B, N, L] of qx (B, N, h, d) and qy (B, L, h, d)
    qx,             \* qx[b][n]: row n of batch item b, 1-based
    qy,             \* qy[b][l]: row l of batch item b, 1-based
    valid_token_indices,
    dst,            \* what pack_cat_gather returned, row by row
    x_out,          \* first tensor unpack_split_xy returned
    y_out,          \* second tensor unpack_split_xy returned
    tile_sample_min_height,
    tile_sample_min_width,
    blend_extent_height,
    blend_extent_width,
    rows,           \* rows[i][j]: the decoded tile, as rows of pixels
    result_row,     \* the tiles of row i cropped so far
    result_rows,    \* the rows of tiles finished so far
    bl_pc,          \* the tile and the step the loop of line 340 is at
    blended,        \* blended[i][j]: the seams of the tile blended so far
    samples,        \* what _run_tiled_decode_on_slice returned
    nm_in,          \* the process and the arguments of the rmsnorm call
    nm_pc,          \* where residual_tanh_gated_rmsnorm is
    nm_kernel,      \* what became of the call of the CUDA kernel
    nm_out,         \* the tensor residual_tanh_gated_rmsnorm returned
    loop_pc,        \* where SpeechfaceWorker.start and its _process_loop are
    input_data,     \* the input_data of a call of MochiModel.generate
    num_frames,     \* the local num_frames of generate
    gen_pc          \* where that call of generate is

coordVars == <<pc, work_complete, dir_exists, lock_file, inodes, flock, f,
               locked, waited, exc, outcome, path, raised, calls, runs>>

shardVars == <<metadata, rank_files, saved, meta_saved>>

pipeVars ==
    <<caller_pc, call_id, kwargs, queue, running, phase, started, refs, requests>>

lifeVars ==
    <<init_pc, init_outcome, pipeline, initialized, ray_up, ctx_stage, loaded,
      gen_outcome>>

workerVars ==
    <<worker_running, current_jobs, job_pc, body_ok, job_status, job_error,
      failed_with, swallowed, deletes, errors, successes>>

cpVars ==
    <<cp_op, cp_size, frames_to_send, cp_x, cp_pc, cp_out, chan, cp_sent,
      cp_recv>>

packVars ==
    <<TRITON_PACK, HAS_TRITON, USE_TRITON_PACK, pk_pc, shape, qx, qy,
      valid_token_indices, dst, x_out, y_out>>

blendVars ==
    <<tile_sample_min_height, tile_sample_min_width, blend_extent_height,
      blend_extent_width, rows, result_row, result_rows, bl_pc, blended,
      samples>>

normVars == <<nm_in, nm_pc, nm_kernel, nm_out>>

loopVars == <<loop_pc>>

genVars == <<input_data, num_frames, gen_pc>>

vars ==
    <<coordVars, shardVars, pipeVars, lifeVars, workerVars, cpVars, packVars,
      blendVars, normVars,
      loopVars, genVars>>

\* what the code of coordinator.py never touches
outsideCoord ==
    <<shardVars, pipeVars, lifeVars, workerVars, cpVars, packVars,
      blendVars, normVars,
      loopVars, genVars>>
\* what the code of sharding.py, run under the coordinator, never touches
outsideShard == <<pipeVars, lifeVars, workerVars, cpVars, packVars,
      blendVars, normVars,
      loopVars, genVars>>
\* what the code of the pipeline never touches
outsidePipe ==
    <<coordVars, shardVars, lifeVars, workerVars, cpVars, packVars,
      blendVars, normVars,
      loopVars, genVars>>
\* what the code of MochiModel never touches
outsideLife == <<coordVars, shardVars, workerVars, cpVars, packVars,
      blendVars, normVars,
      loopVars, genVars>>
\* what the code of the worker loop never touches
outsideWorker ==
    <<coordVars, shardVars, pipeVars, lifeVars, cpVars, packVars,
      blendVars, normVars,
      loopVars, genVars>>
\* what the tensor functions of the VAE never touch
outsideCp ==
    <<coordVars, shardVars, pipeVars, lifeVars, workerVars, packVars,
      blendVars, normVars,
      loopVars, genVars>>
\* what triton_pack.py never touches
outsidePack ==
    <<coordVars, shardVars, pipeVars, lifeVars, workerVars, cpVars,
      blendVars, normVars,
      loopVars, genVars>>
\* what the tiled decode never touches
outsideBlend ==
    <<coordVars, shardVars, pipeVars, lifeVars, workerVars, cpVars, packVars,
      normVars,
      loopVars, genVars>>
\* what kernels/ops.py never touches
outsideNorm ==
    <<coordVars, shardVars, pipeVars, lifeVars, workerVars, cpVars, packVars,
      blendVars,
      loopVars, genVars>>

WaitPcs == {"wait", "exists"}

\* The files of shards_dir and the state of a shard creation, untouched.
NoShards ==
    /\ metadata = FALSE
    /\ rank_files = {}
    /\ saved = [p \in Procs |-> {}]
    /\ meta_saved = [p \in Procs |-> FALSE]

\* No task is known to the orchestrator.
NoFrames == [k \in Ctxs |-> "none"]
NoTask ==
    [call |-> 0, fn |-> "none", kwargs |-> "none", show_progress |-> FALSE,
     frames |-> NoFrames]
\* An ObjectRef: not created, pending, or holding a value or an error.
NoRef == [state |-> "none", rank |-> 0, frames |-> NoFrames]

\* The pipeline, constructed and at rest.
NoPipe ==
    /\ caller_pc = [c \in Callers |-> "idle"]
    /\ call_id = [c \in Callers |-> 0]
    /\ kwargs = [c \in Callers |-> "none"]
    /\ queue = [r \in Ctxs |-> <<>>]
    /\ running = [r \in Ctxs |-> NoTask]
    /\ phase = [r \in Ctxs |-> "idle"]
    /\ started = [r \in Ctxs |-> <<>>]
    /\ refs = [c \in Callers |-> [r \in Ctxs |-> NoRef]]
    /\ requests = 0


\* What DualGPUContext.__init__ does, in the order of lines 32-57.
InitOrder == <<"group", "tokenizer", "text_encoder", "dit", "decoder">>

\* MochiModel() before initialize(): lines 27-31 of mochi_model.py.
NoModel ==
    /\ init_pc = "new"
    /\ init_outcome = "none"
    /\ pipeline = "None"
    /\ initialized = FALSE
    /\ ray_up = FALSE
    /\ ctx_stage = [r \in Ctxs |-> "none"]
    /\ loaded = [r \in Ctxs |-> <<>>]
    /\ gen_outcome = [c \in Callers |-> "none"]

\* MochiModel after an initialize() that returned: every context ready.
ModelReady ==
    /\ init_pc = "done"
    /\ init_outcome = "returned"
    /\ pipeline = "pipeline"
    /\ initialized = TRUE
    /\ ray_up = TRUE
    /\ ctx_stage = [r \in Ctxs |-> "ready"]
    /\ loaded = [r \in Ctxs |-> InitOrder]
    /\ gen_outcome = [c \in Callers |-> "none"]

\* main.py lines 59-72: start() is about to test self.running in
\* _process_loop, and generate() has not been called.
NoLoop ==
    /\ loop_pc = "top"
    /\ input_data = [prompt |-> "", num_frames |-> 1]
    /\ num_frames = 1
    /\ gen_pc = "idle"

\* a tensor as far as the rmsnorm wrapper looks at it
NoTensor == [shape |-> <<>>, dtype |-> "none", device |-> "none"]

\* residual_tanh_gated_rmsnorm not called
NoNorm ==
    /\ nm_in = [cuda_available |-> FALSE, kernel_loaded |-> FALSE,
                x |-> NoTensor, x_res |-> NoTensor, gate |-> NoTensor]
    /\ nm_pc = "none"
    /\ nm_kernel = "not_called"
    /\ nm_out = NoTensor

\* no tiled decode under way
NoBlend ==
    /\ tile_sample_min_height = 1
    /\ tile_sample_min_width = 1
    /\ blend_extent_height = 0
    /\ blend_extent_width = 0
    /\ rows = <<>>
    /\ result_row = <<>>
    /\ result_rows = <<>>
    /\ bl_pc = [i |-> 0, j |-> 0, step |-> "none"]
    /\ blended = <<>>
    /\ samples = <<>>

\* triton_pack.py not imported
NoPack ==
    /\ TRITON_PACK = "1"
    /\ HAS_TRITON = TRUE
    /\ USE_TRITON_PACK = FALSE
    /\ pk_pc = "import"
    /\ shape = [B |-> 1, N |-> 1, L |-> 1]
    /\ qx = <<>>
    /\ qy = <<>>
    /\ valid_token_indices = <<>>
    /\ dst = <<>>
    /\ x_out = <<>>
    /\ y_out = <<>>

\* no context-parallel group: genmo.mochi.dit.context_parallel before
\* set_cp_group, where get_cp_rank_size() is (0, 1)
NoCp ==
    /\ cp_op = "none"
    /\ cp_size = 1
    /\ frames_to_send = 0
    /\ cp_x = [r \in {0} |-> <<>>]
    /\ cp_pc = [r \in {0} |-> "start"]
    /\ cp_out = [r \in {0} |-> <<>>]
    /\ chan = [r \in {0} |-> <<>>]
    /\ cp_sent = [r \in {0} |-> 0]
    /\ cp_recv = [r \in {0} |-> 0]

\* SpeechfaceWorker() before its loop has received anything: main.py
\* lines 31-34; the messages wait in the queue.
NoWorker ==
    /\ worker_running = TRUE
    /\ current_jobs = 0
    /\ job_pc = [m \in Messages |-> "queued"]
    /\ body_ok = [m \in Messages |-> TRUE]
    /\ job_status = [m \in Messages |-> "queued"]
    /\ job_error = [m \in Messages |-> "none"]
    /\ failed_with = [m \in Messages |-> "none"]
    /\ swallowed = [m \in Messages |-> "none"]
    /\ deletes = [m \in Messages |-> 0]
    /\ errors = 0
    /\ successes = 0

(* ------------------------- coordinator.py ------------------------------ *)

CoordInit ==
    /\ pc = [p \in Procs |-> "idle"]
    /\ work_complete \in BOOLEAN
    /\ dir_exists \in BOOLEAN
    /\ lock_file = 0
    /\ inodes = 0
    /\ flock = [i \in Inodes |-> 0]
    /\ f = [p \in Procs |-> 0]
    /\ locked = [p \in Procs |-> FALSE]
    /\ waited = [p \in Procs |-> 0]
    /\ exc = [p \in Procs |-> "none"]
    /\ outcome = [p \in Procs |-> "none"]
    /\ path = [p \in Procs |-> "none"]
    /\ raised = [p \in Procs |-> "none"]
    /\ calls = 0
    /\ runs = 0

\* lock_file.exists()
lock_file_exists == dir_exists /\ lock_file # 0

\* Enter without the fast path of lines 33-35.
EnterNoFastPath(p, done) ==
    /\ pc[p] = "idle"
    /\ calls < MaxCalls
    /\ calls' = calls + 1
    /\ dir_exists' = TRUE
    /\ locked' = [locked EXCEPT ![p] = FALSE]
    /\ waited' = [waited EXCEPT ![p] = 0]
    /\ exc' = [exc EXCEPT ![p] = "none"]
    /\ raised' = [raised EXCEPT ![p] = "none"]
    /\ pc' = [pc EXCEPT ![p] = "open"]
    /\ outcome' = [outcome EXCEPT ![p] = "none"]
    /\ path' = [path EXCEPT ![p] = "slow"]
    /\ UNCHANGED <<work_complete, lock_file, inodes, flock, f, runs>>
    /\ UNCHANGED outsideCoord

\* Lines 28-39: mkdir, then the fast path.  `done` is the value
\* is_work_complete() returns now.
Enter(p, done) ==
    /\ pc[p] = "idle"
    /\ calls < MaxCalls
    /\ calls' = calls + 1
    /\ dir_exists' = TRUE
    /\ locked' = [locked EXCEPT ![p] = FALSE]
    /\ waited' = [waited EXCEPT ![p] = 0]
    /\ exc' = [exc EXCEPT ![p] = "none"]
    /\ raised' = [raised EXCEPT ![p] = "none"]
    /\ IF done
       THEN /\ pc' = pc
            /\ outcome' = [outcome EXCEPT ![p] = "returned"]
            /\ path' = [path EXCEPT ![p] = "fast"]
       ELSE /\ pc' = [pc EXCEPT ![p] = "open"]
            /\ outcome' = [outcome EXCEPT ![p] = "none"]
            /\ path' = [path EXCEPT ![p] = "slow"]
    /\ UNCHANGED <<work_complete, lock_file, inodes, flock, f, runs>>
    /\ UNCHANGED outsideCoord

\* Line 42: open(lock_file, 'w') creates the file when the path names none.
\* Without work_dir the open raises FileNotFoundError, outside the inner try.
Open(p) ==
    /\ pc[p] = "open"
    /\ IF dir_exists
       THEN /\ IF lock_file = 0
               THEN /\ inodes' = inodes + 1
                    /\ lock_file' = inodes + 1
               ELSE UNCHANGED <<inodes, lock_file>>
            /\ f' = [f EXCEPT ![p] = lock_file']
            /\ pc' = [pc EXCEPT ![p] = "flock"]
            /\ exc' = exc
       ELSE /\ exc' = [exc EXCEPT ![p] = "OSError"]
            /\ pc' = [pc EXCEPT ![p] = "finally"]
            /\ UNCHANGED <<inodes, lock_file, f>>
    /\ UNCHANGED <<work_complete, dir_exists, flock, locked, waited, outcome,
                   path, raised, calls, runs>>
    /\ UNCHANGED outsideCoord

\* Line 45: fcntl.flock(LOCK_EX | LOCK_NB) on the inode the pod opened;
\* lines 55-61: IOError sends the pod to _wait_for_pod_work_completion.
Flock(p) ==
    /\ pc[p] = "flock"
    /\ IF flock[f[p]] = 0
       THEN /\ flock' = [flock EXCEPT ![f[p]] = p]
            /\ locked' = [locked EXCEPT ![p] = TRUE]
            /\ pc' = [pc EXCEPT ![p] = "recheck"]
            /\ path' = path
       ELSE /\ pc' = [pc EXCEPT ![p] = "wait"]
            /\ path' = [path EXCEPT ![p] = "busy"]
            /\ UNCHANGED <<flock, locked>>
    /\ UNCHANGED <<work_complete, dir_exists, lock_file, inodes, f, waited,
                   exc, outcome, raised, calls, runs>>
    /\ UNCHANGED outsideCoord

\* Lines 49-53: the re-check under the lock.
Recheck(p, done) ==
    /\ pc[p] = "recheck"
    /\ IF done
       THEN /\ pc' = [pc EXCEPT ![p] = "close"]
            /\ path' = [path EXCEPT ![p] = "recheck_complete"]
            /\ runs' = runs
       ELSE /\ pc' = [pc EXCEPT ![p] = "do_work"]
            /\ path' = [path EXCEPT ![p] = "do_work"]
            /\ runs' = runs + 1
    /\ UNCHANGED <<work_complete, dir_exists, lock_file, inodes, flock, f,
                   locked, waited, exc, outcome, raised, calls>>
    /\ UNCHANGED outsideCoord

\* Line 50 returns: do_work() finished.
WorkReturned(p) ==
    /\ pc' = [pc EXCEPT ![p] = "close"]
    /\ path' = [path EXCEPT ![p] = "work_done"]
    /\ UNCHANGED <<waited, exc>>

\* Line 50 raises e.  The try of line 43 encloses the await, so
\* `except IOError` (line 55) also catches an OSError that do_work raised
\* and calls _wait_for_pod_work_completion; any other exception leaves the
\* with block and reaches `except Exception: raise` (lines 63-65).
WorkRaised(p, e) ==
    /\ path' = [path EXCEPT ![p] = "work_raised"]
    /\ IF e = "OSError"
       THEN /\ pc' = [pc EXCEPT ![p] = "wait"]
            /\ waited' = [waited EXCEPT ![p] = 0]
            /\ exc' = exc
       ELSE /\ pc' = [pc EXCEPT ![p] = "close"]
            /\ exc' = [exc EXCEPT ![p] = e]
            /\ waited' = waited

\* The generic do_work: it makes is_work_complete() true when it finishes.
DoWorkSucceeds(p) ==
    /\ pc[p] = "do_work"
    /\ work_complete' = TRUE
    /\ WorkReturned(p)
    /\ UNCHANGED <<dir_exists, lock_file, inodes, flock, f, locked, outcome,
                   raised, calls, runs>>
    /\ UNCHANGED outsideCoord

DoWorkFails(p, e) ==
    /\ pc[p] = "do_work"
    /\ raised' = [raised EXCEPT ![p] = e]
    /\ WorkRaised(p, e)
    /\ UNCHANGED <<work_complete, dir_exists, lock_file, inodes, flock, f,
                   locked, outcome, calls, runs>>
    /\ UNCHANGED outsideCoord

\* Lines 88-91 and 102-103: the loop test, then is_complete(); the loop
\* left by its test raises TimeoutError.
WaitCheck(p, done) ==
    /\ pc[p] = "wait"
    /\ IF waited[p] >= max_wait_seconds
       THEN /\ exc' = [exc EXCEPT ![p] = "TimeoutError"]
            /\ pc' = [pc EXCEPT ![p] = "close"]
            /\ path' = [path EXCEPT ![p] = "wait_timeout"]
            /\ waited' = [waited EXCEPT ![p] = 0]
       ELSE /\ exc' = exc
            /\ IF done
               THEN /\ pc' = [pc EXCEPT ![p] = "close"]
                    /\ path' = [path EXCEPT ![p] = "wait_complete"]
                    /\ waited' = [waited EXCEPT ![p] = 0]
               ELSE /\ pc' = [pc EXCEPT ![p] = "exists"]
                    /\ UNCHANGED <<path, waited>>
    /\ UNCHANGED <<work_complete, dir_exists, lock_file, inodes, flock, f,
                   locked, outcome, raised, calls, runs>>
    /\ UNCHANGED outsideCoord

\* Line 103 without the test of line 102.
AfterBreakAlwaysRaises(p) == "TimeoutError"

\* What follows the loop when `break` (line 96) left it: line 102.
AfterBreak(p) ==
    IF waited[p] >= max_wait_seconds THEN "TimeoutError" ELSE exc[p]

\* The sleep of line 99 without the count of line 100.
SleptUncounted(p) == waited[p]

\* Lines 99-100: after the sleep, waited += check_interval_seconds.
Slept(p) == waited[p] + check_interval_seconds

\* Lines 94-100: the lock file is gone, break; or sleep and count.
WaitExists(p) ==
    /\ pc[p] = "exists"
    /\ IF lock_file_exists
       THEN /\ pc' = [pc EXCEPT ![p] = "wait"]
            /\ waited' = [waited EXCEPT ![p] = Slept(p)]
            /\ UNCHANGED <<exc, path>>
       ELSE /\ pc' = [pc EXCEPT ![p] = "close"]
            /\ exc' = [exc EXCEPT ![p] = AfterBreak(p)]
            /\ path' = [path EXCEPT ![p] = "wait_lock_gone"]
            /\ waited' = [waited EXCEPT ![p] = 0]
    /\ UNCHANGED <<work_complete, dir_exists, lock_file, inodes, flock, f,
                   locked, outcome, raised, calls, runs>>
    /\ UNCHANGED outsideCoord

\* The flock of every inode pod p holds is dropped when its file closes.
Released(p) == [i \in Inodes |-> IF flock[i] = p THEN 0 ELSE flock[i]]

\* Line 42, leaving the with block: f is closed, which releases the flock.
Close(p) ==
    /\ pc[p] = "close"
    /\ flock' = Released(p)
    /\ f' = [f EXCEPT ![p] = 0]
    /\ pc' = [pc EXCEPT ![p] = "finally"]
    /\ UNCHANGED <<work_complete, dir_exists, lock_file, inodes, locked,
                   waited, exc, outcome, path, raised, calls, runs>>
    /\ UNCHANGED outsideCoord

\* The unlink as the last statement of the try body instead of in finally.
UnlinkOnSuccessOnly(p) == IF exc[p] = "none" THEN 0 ELSE lock_file

\* Lines 68-71: lock_file.unlink(), whoever created the file the path
\* names now; FileNotFoundError is ignored.
Unlink(p) == 0

\* Lines 66-73, then the call returns or raises exc[p].
Finally(p) ==
    /\ pc[p] = "finally"
    /\ lock_file' = Unlink(p)
    /\ pc' = [pc EXCEPT ![p] = "idle"]
    /\ outcome' = [outcome EXCEPT ![p] =
                      IF exc[p] = "none" THEN "returned" ELSE exc[p]]
    /\ exc' = [exc EXCEPT ![p] = "none"]
    /\ UNCHANGED <<work_complete, dir_exists, inodes, flock, f, locked,
                   waited, path, raised, calls, runs>>
    /\ UNCHANGED outsideCoord

CoordNext ==
    \E p \in Procs :
        \/ Enter(p, work_complete)
        \/ Open(p)
        \/ Flock(p)
        \/ Recheck(p, work_complete)
        \/ DoWorkSucceeds(p)
        \/ \E e \in WorkErrors : DoWorkFails(p, e)
        \/ WaitCheck(p, work_complete)
        \/ WaitExists(p)
        \/ Close(p)
        \/ Finally(p)

\* Pods coordinating a generic piece of work.
Init ==
    /\ CoordInit /\ NoShards /\ NoPipe /\ NoModel /\ NoWorker /\ NoCp
    /\ NoPack /\ NoBlend /\ NoNorm /\ NoLoop

Next == CoordNext

Spec == Init /\ [][Next]_vars

(* ---------------------------- sharding.py ------------------------------ *)

\* all_shards_exist with the rank files of lines 77-83 left unchecked.
all_shards_exist_metadata_only == dir_exists /\ metadata

\* Lines 67-90: the .metadata file, then every rank's file.
all_shards_exist ==
    IF ~(dir_exists /\ metadata)
    THEN FALSE
    ELSE \A rank \in Ranks : rank \in rank_files

\* Lines 206-210: shutil.rmtree(shards_dir).  shards_dir is the work_dir of
\* the coordinator, so the lock file goes with it.
Rmtree ==
    /\ dir_exists' = FALSE
    /\ metadata' = FALSE
    /\ rank_files' = {}
    /\ lock_file' = 0

\* Lines 92-97: create_missing_shards starts, shards_dir.mkdir().
MakeShardsDir(p) ==
    /\ pc[p] = "do_work"
    /\ dir_exists' = TRUE
    /\ pc' = [pc EXCEPT ![p] = "ray_init"]
    /\ UNCHANGED <<work_complete, lock_file, inodes, flock, f, locked, waited,
                   exc, outcome, path, raised, calls, runs>>
    /\ UNCHANGED shardVars
    /\ UNCHANGED outsideShard

\* Lines 118-136: ray.init, _create_sharding_actors,
\* _wait_for_actor_initialization, one after the other.
SetupStep(p) ==
    /\ pc[p] \in {"ray_init", "actors", "ready"}
    /\ pc' = [pc EXCEPT ![p] = CASE pc[p] = "ray_init" -> "actors"
                                 [] pc[p] = "actors" -> "ready"
                                 [] pc[p] = "ready" -> "save"]
    /\ UNCHANGED <<work_complete, dir_exists, lock_file, inodes, flock, f,
                   locked, waited, exc, outcome, path, raised, calls, runs>>
    /\ UNCHANGED shardVars
    /\ UNCHANGED outsideShard

\* Lines 123-142: one of them raises (GetTimeoutError is a TimeoutError,
\* hence an OSError).  Only ray.shutdown() runs: no file is removed.
SetupFails(p, e) ==
    /\ pc[p] \in {"ray_init", "actors", "ready"}
    /\ raised' = [raised EXCEPT ![p] = e]
    /\ WorkRaised(p, e)
    /\ UNCHANGED <<work_complete, dir_exists, lock_file, inodes, flock, f,
                   locked, outcome, calls, runs>>
    /\ UNCHANGED shardVars
    /\ UNCHANGED outsideShard

\* Lines 41-52 on the actor of rank r: dcp.save writes the rank's file
\* into checkpoint_dir, creating the directory when it is missing.
WriteShard(p, r) ==
    /\ pc[p] = "save"
    /\ r \notin saved[p]
    /\ saved' = [saved EXCEPT ![p] = @ \cup {r}]
    /\ rank_files' = rank_files \cup {r}
    /\ dir_exists' = TRUE
    /\ UNCHANGED <<pc, work_complete, lock_file, inodes, flock, f, locked,
                   waited, exc, outcome, path, raised, calls, runs>>
    /\ UNCHANGED <<metadata, meta_saved>>
    /\ UNCHANGED outsideShard

\* Lines 48-51: dcp.save writes .metadata once every rank has written.
WriteMetadata(p) ==
    /\ pc[p] = "save"
    /\ saved[p] = Ranks
    /\ ~meta_saved[p]
    /\ meta_saved' = [meta_saved EXCEPT ![p] = TRUE]
    /\ metadata' = TRUE
    /\ dir_exists' = TRUE
    /\ UNCHANGED <<pc, work_complete, lock_file, inodes, flock, f, locked,
                   waited, exc, outcome, path, raised, calls, runs>>
    /\ UNCHANGED <<rank_files, saved>>
    /\ UNCHANGED outsideShard

\* Line 191: ray.get(shard_tasks) returns, every task has finished.
SaveReturns(p) ==
    /\ pc[p] = "save"
    /\ saved[p] = Ranks
    /\ pc' = [pc EXCEPT ![p] = "validate"]
    /\ saved' = [saved EXCEPT ![p] = {}]
    /\ meta_saved' = [meta_saved EXCEPT ![p] = FALSE]
    /\ UNCHANGED <<work_complete, dir_exists, lock_file, inodes, flock, f,
                   locked, waited, exc, outcome, path, raised, calls, runs>>
    /\ UNCHANGED <<metadata, rank_files>>
    /\ UNCHANGED outsideShard

\* Lines 191 and 202-214: a task raised e; the directory is removed and e
\* is raised again.
SaveFails(p, e) ==
    /\ pc[p] = "save"
    /\ Rmtree
    /\ saved' = [saved EXCEPT ![p] = {}]
    /\ meta_saved' = [meta_saved EXCEPT ![p] = FALSE]
    /\ raised' = [raised EXCEPT ![p] = e]
    /\ WorkRaised(p, e)
    /\ UNCHANGED <<work_complete, inodes, flock, f, locked, outcome, calls,
                   runs>>
    /\ UNCHANGED outsideShard

\* Lines 195-200 and 102: the .metadata file is there, do_work returns;
\* lines 197-198 and 202-214: it is not, FileNotFoundError after the
\* clean-up.
Validate(p) ==
    /\ pc[p] = "validate"
    /\ IF dir_exists /\ metadata
       THEN /\ WorkReturned(p)
            /\ UNCHANGED <<dir_exists, lock_file, raised>>
            /\ UNCHANGED <<metadata, rank_files>>
       ELSE /\ Rmtree
            /\ raised' = [raised EXCEPT ![p] = "OSError"]
            /\ WorkRaised(p, "OSError")
    /\ UNCHANGED <<work_complete, inodes, flock, f, locked, outcome, calls,
                   runs>>
    /\ UNCHANGED <<saved, meta_saved>>
    /\ UNCHANGED outsideShard

\* shards_dir as create_shards may find it: absent, empty, complete, or
\* holding part of a checkpoint (the "Incomplete distributed checkpoint"
\* branch of lines 87-88).
ShardInit ==
    /\ CoordInit
    /\ work_complete = FALSE
    /\ metadata \in BOOLEAN
    /\ rank_files \in SUBSET Ranks
    /\ (metadata \/ rank_files # {}) => dir_exists
    /\ saved = [p \in Procs |-> {}]
    /\ meta_saved = [p \in Procs |-> FALSE]
    /\ NoPipe
    /\ NoModel
    /\ NoWorker
    /\ NoCp /\ NoPack /\ NoBlend
    /\ NoNorm /\ NoLoop

\* Lines 59-112: a pod calls create_shards once, when it loads the model;
\* lines 105-112: coordinate_pod_work(is_work_complete = all_shards_exist,
\* do_work = create_missing_shards).
create_shards(p) ==
    /\ outcome[p] = "none"
    /\ Enter(p, all_shards_exist)

ShardNext ==
    \E p \in Pods :
        \/ create_shards(p)
        \/ Open(p)
        \/ Flock(p)
        \/ Recheck(p, all_shards_exist)
        \/ WaitCheck(p, all_shards_exist)
        \/ WaitExists(p)
        \/ Close(p)
        \/ Finally(p)
        \/ MakeShardsDir(p)
        \/ SetupStep(p)
        \/ \E e \in WorkErrors : SetupFails(p, e)
        \/ \E r \in Ranks : WriteShard(p, r)
        \/ WriteMetadata(p)
        \/ SaveReturns(p)
        \/ \E e \in WorkErrors : SaveFails(p, e)
        \/ Validate(p)

\* Pods creating the DiT shards.
SpecShard == ShardInit /\ [][ShardNext]_vars

(* ------------------- mochi/patches/pipeline.py ------------------------- *)

\* Line 123: the list comprehension calls ctx.run.remote(fn=sample,
\* **kwargs, show_progress=i == 0) for the contexts in order; context i is
\* the next one when i refs exist.
Submitted(c) == {r \in Ctxs : refs[c][r].state # "none"}

\* Line 105: a thread enters __call__(**kwargs).
Call(c, k) ==
    /\ caller_pc[c] = "idle"
    /\ requests < MaxRequests
    /\ requests' = requests + 1
    /\ call_id' = [call_id EXCEPT ![c] = requests + 1]
    /\ kwargs' = [kwargs EXCEPT ![c] = k]
    /\ refs' = [refs EXCEPT ![c] = [r \in Ctxs |-> NoRef]]
    /\ caller_pc' = [caller_pc EXCEPT ![c] = "submit"]
    /\ UNCHANGED <<queue, running, phase, started>>
    /\ UNCHANGED outsidePipe

\* Line 123: ctx.run.remote(...) on context i appends the task to the
\* actor's queue and hands back a pending ObjectRef; the ObjectRef of a
\* task submitted to a dead actor holds an error.
Submit(c) ==
    /\ caller_pc[c] = "submit"
    /\ LET i == Cardinality(Submitted(c))
           task == [call |-> call_id[c], fn |-> "sample", kwargs |-> kwargs[c],
                    show_progress |-> (i = 0), frames |-> NoFrames]
           alive == ctx_stage[i] = "ready"
       IN /\ queue' = [queue EXCEPT ![i] = IF alive THEN Append(@, task) ELSE @]
          /\ refs' = [refs EXCEPT ![c][i] =
                         [NoRef EXCEPT !.state =
                             IF alive THEN "pending" ELSE "error"]]
          /\ caller_pc' = [caller_pc EXCEPT ![c] =
                              IF i + 1 = num_gpus THEN "get" ELSE "submit"]
    /\ UNCHANGED <<call_id, kwargs, running, phase, requests, started>>
    /\ UNCHANGED outsidePipe

\* Lines 65-66 and 106-119: the actor, whose __init__ has returned, takes
\* its next task,
\* run(fn=sample, **kwargs), and samples.
RunStarts(r) ==
    /\ ctx_stage[r] = "ready"
    /\ phase[r] = "idle"
    /\ queue[r] # <<>>
    /\ running' = [running EXCEPT ![r] = Head(queue[r])]
    /\ queue' = [queue EXCEPT ![r] = Tail(@)]
    /\ phase' = [phase EXCEPT ![r] = "sample"]
    /\ started' = [started EXCEPT ![r] = Append(@, Head(queue[r]).call)]
    /\ UNCHANGED <<caller_pc, call_id, kwargs, refs, requests>>
    /\ UNCHANGED outsidePipe

\* Line 119: the all-gather of decode_latents_tiled_distributed completes
\* once every rank has entered it, and gives each rank the frames of all.
AllGather ==
    /\ \A r \in Ctxs : phase[r] = "sample"
    /\ running' = [r \in Ctxs |->
                     [running[r] EXCEPT
                         !.frames = [k \in Ctxs |-> running[k].kwargs]]]
    /\ phase' = [r \in Ctxs |-> "gathered"]
    /\ UNCHANGED <<caller_pc, call_id, kwargs, queue, refs, requests, started>>
    /\ UNCHANGED outsidePipe

\* Lines 120 and 66: rank r returns its frames; the ObjectRef of the task
\* holds them.
RunReturns(r) ==
    /\ phase[r] = "gathered"
    /\ refs' = [c \in Callers |-> [k \in Ctxs |->
                  IF k = r /\ running[r].call = call_id[c]
                  THEN [state |-> "value", rank |-> r,
                        frames |-> running[r].frames]
                  ELSE refs[c][k]]]
    /\ running' = [running EXCEPT ![r] = NoTask]
    /\ phase' = [phase EXCEPT ![r] = "idle"]
    /\ UNCHANGED <<caller_pc, call_id, kwargs, queue, requests, started>>
    /\ UNCHANGED outsidePipe

\* Lines 108-120: the function raises on rank r, before the gather
\* completes or after it (frames.cpu().numpy()).
RunRaises(r) ==
    /\ phase[r] \in {"sample", "gathered"}
    /\ refs' = [c \in Callers |-> [k \in Ctxs |->
                  IF k = r /\ running[r].call = call_id[c]
                  THEN [NoRef EXCEPT !.state = "error"]
                  ELSE refs[c][k]]]
    /\ running' = [running EXCEPT ![r] = NoTask]
    /\ phase' = [phase EXCEPT ![r] = "idle"]
    /\ UNCHANGED <<caller_pc, call_id, kwargs, queue, requests, started>>
    /\ UNCHANGED outsidePipe

\* ray.get that returns as soon as the first ref is ready.
GetReadyFirstOnly(c) == refs[c][0].state \in {"value", "error"}

\* Line 122: ray.get(list) blocks until every ref of the list holds a
\* value; a ref that holds an error ends the wait, whether or not the
\* other refs are ready.
GetReady(c) ==
    \/ \A r \in Ctxs : refs[c][r].state = "value"
    \/ \E r \in Ctxs : refs[c][r].state = "error"

\* ray.get that looks for an error in the first ref only.
GetOutcomeFirstOnly(c) ==
    IF refs[c][0].state = "error" THEN "raised" ELSE "returned"

\* Line 122: ray.get raises the error of a task that raised, whichever
\* ref of the list holds it; otherwise it returns the list of values.
GetOutcome(c) ==
    IF \E r \in Ctxs : refs[c][r].state = "error"
    THEN "raised" ELSE "returned"

\* Lines 122-123: ray.get(...)[0], or the error of a task that raised.
Get(c) ==
    /\ caller_pc[c] = "get"
    /\ GetReady(c)
    /\ caller_pc' = [caller_pc EXCEPT ![c] = GetOutcome(c)]
    /\ UNCHANGED <<call_id, kwargs, queue, running, phase, refs, requests, started>>
    /\ UNCHANGED outsidePipe

\* What __call__ returned: element 0 of the list ray.get gave.
Result(c) == refs[c][0]

\* The caller has its result (or error) and may call again.
Done(c) ==
    /\ caller_pc[c] \in {"returned", "raised"}
    /\ requests < MaxRequests
    /\ caller_pc' = [caller_pc EXCEPT ![c] = "idle"]
    /\ UNCHANGED <<call_id, kwargs, queue, running, phase, refs, requests, started>>
    /\ UNCHANGED outsidePipe

PipeInit ==
    /\ CoordInit /\ ~work_complete /\ ~dir_exists
    /\ NoShards /\ NoPipe /\ ModelReady /\ NoWorker /\ NoCp /\ NoPack /\ NoBlend
    /\ NoNorm /\ NoLoop

PipeNext ==
    \/ \E c \in Callers :
          \/ \E k \in Kwargs : Call(c, k)
          \/ Submit(c)
          \/ Get(c)
          \/ Done(c)
    \/ \E r \in Ctxs :
          \/ RunStarts(r)
          \/ RunReturns(r)
          \/ RunRaises(r)
    \/ AllGather

\* Threads calling the two-rank pipeline.
SpecPipe == PipeInit /\ [][PipeNext]_vars

(* ---------------- mochi_model.py and pipeline construction ------------- *)

\* The thread whose generate() calls SpecLife follows.
MainCaller == 1

\* mochi_model.py lines 90-136 with the multi-GPU branch taken, pipeline.py
\* lines 77-98: initialize() starts the construction of the pipeline in a
\* thread; ray.init, one actor per rank, then the wait for __ray_ready__.
Initialize ==
    /\ init_pc = "new"
    /\ init_pc' = "get_ready"
    /\ ray_up' = TRUE
    /\ ctx_stage' = [r \in Ctxs |-> "created"]
    /\ UNCHANGED <<init_outcome, pipeline, initialized, loaded, gen_outcome>>
    /\ UNCHANGED pipeVars
    /\ UNCHANGED outsideLife

\* DualGPUContext.__init__ with the DiT loaded before the text encoder.
NextStageDitFirst(st) ==
    CASE st = "created" -> "joining"
      [] st = "joined" -> "tokenizer"
      [] st = "tokenizer" -> "dit"
      [] st = "dit" -> "text_encoder"
      [] st = "text_encoder" -> "ready"
      [] OTHER -> st

\* pipeline.py lines 31-57: the steps of DualGPUContext.__init__.
NextStage(st) ==
    CASE st = "created" -> "joining"
      [] st = "joined" -> "tokenizer"
      [] st = "tokenizer" -> "text_encoder"
      [] st = "text_encoder" -> "dit"
      [] st = "dit" -> "ready"
      [] OTHER -> st

\* What a step of __init__ that reaches stage st has loaded.
LoadedBy(st) ==
    CASE st = "joining" -> <<>>
      [] st = "tokenizer" -> <<"tokenizer">>
      [] st = "text_encoder" -> <<"text_encoder">>
      [] st = "dit" -> <<"dit">>
      [] st = "ready" -> <<"decoder">>

\* pipeline.py lines 31-60: the actor of rank r takes the next step of
\* __init__: it calls init_process_group, or loads the next component.
CtxStep(r) ==
    /\ ctx_stage[r] \in {"created", "joined", "tokenizer", "text_encoder", "dit"}
    /\ ctx_stage' = [ctx_stage EXCEPT ![r] = NextStage(@)]
    /\ loaded' = [loaded EXCEPT ![r] =
                     @ \o LoadedBy(NextStage(ctx_stage[r]))]
    /\ UNCHANGED <<init_pc, init_outcome, pipeline, initialized, ray_up,
                   gen_outcome>>
    /\ UNCHANGED pipeVars
    /\ UNCHANGED outsideLife

\* pipeline.py lines 32-38: init_process_group returns on every rank once
\* all world_size ranks have called it.
GroupJoined ==
    /\ \A r \in Ctxs : ctx_stage[r] = "joining"
    /\ ctx_stage' = [r \in Ctxs |-> "joined"]
    /\ loaded' = [r \in Ctxs |-> loaded[r] \o <<"group">>]
    /\ UNCHANGED <<init_pc, init_outcome, pipeline, initialized, ray_up,
                   gen_outcome>>
    /\ UNCHANGED pipeVars
    /\ UNCHANGED outsideLife

\* pipeline.py lines 24-63: __init__ raises on rank r, the actor dies.
CtxFails(r) ==
    /\ ctx_stage[r] \in {"created", "joining", "joined", "tokenizer",
                         "text_encoder", "dit"}
    /\ ctx_stage' = [ctx_stage EXCEPT ![r] = "failed"]
    /\ UNCHANGED <<init_pc, init_outcome, pipeline, initialized, ray_up, loaded,
                   gen_outcome>>
    /\ UNCHANGED pipeVars
    /\ UNCHANGED outsideLife

\* ray.get(ready_refs) that waits for the first context only.
FirstReady == ctx_stage[0] = "ready"

\* pipeline.py lines 98-99: ray.get(ready_refs) returns when the
\* __ray_ready__ ref of every context holds a value.
AllReady == \A r \in Ctxs : ctx_stage[r] = "ready"

\* pipeline.py lines 99-100, mochi_model.py lines 131-137 and 168: every
\* context is ready, the constructor returns, initialize() keeps the
\* pipeline and sets _initialized.
ReadyReturns ==
    /\ init_pc = "get_ready"
    /\ AllReady
    /\ init_pc' = "done"
    /\ init_outcome' = "returned"
    /\ pipeline' = "pipeline"
    /\ initialized' = TRUE
    /\ UNCHANGED <<ray_up, ctx_stage, loaded, gen_outcome>>
    /\ UNCHANGED pipeVars
    /\ UNCHANGED outsideLife

\* pipeline.py lines 99-103: the 120 s pass before every context is ready;
\* the except block prints and raises, GetTimeoutError leaves the
\* constructor and initialize().  The actors are left as they are.
ReadyTimesOut ==
    /\ init_pc = "get_ready"
    /\ \E r \in Ctxs : ctx_stage[r] # "ready"
    /\ init_pc' = "done"
    /\ init_outcome' = "GetTimeoutError"
    /\ UNCHANGED <<pipeline, initialized, ray_up, ctx_stage, loaded, gen_outcome>>
    /\ UNCHANGED pipeVars
    /\ UNCHANGED outsideLife

\* pipeline.py line 99: the __ray_ready__ ref of a context whose __init__
\* raised holds an error; ray.get raises it, nothing catches it.
ReadyFails ==
    /\ init_pc = "get_ready"
    /\ \E r \in Ctxs : ctx_stage[r] = "failed"
    /\ init_pc' = "done"
    /\ init_outcome' = "RayActorError"
    /\ UNCHANGED <<pipeline, initialized, ray_up, ctx_stage, loaded, gen_outcome>>
    /\ UNCHANGED pipeVars
    /\ UNCHANGED outsideLife

\* mochi_model.py lines 283-297 when self.pipeline is set: ray.kill of
\* every context, ray.shutdown(); the tasks of the actors are lost and
\* their pending ObjectRefs hold an error.
Teardown ==
    /\ ctx_stage' = [r \in Ctxs |-> "killed"]
    /\ ray_up' = FALSE
    /\ queue' = [r \in Ctxs |-> <<>>]
    /\ running' = [r \in Ctxs |-> NoTask]
    /\ phase' = [r \in Ctxs |-> "idle"]
    /\ refs' = [c \in Callers |-> [r \in Ctxs |->
                  IF refs[c][r].state = "pending"
                  THEN [NoRef EXCEPT !.state = "error"]
                  ELSE refs[c][r]]]

\* mochi_model.py lines 278-304: cleanup().
cleanup ==
    /\ IF pipeline # "None"
       THEN Teardown
       ELSE UNCHANGED <<ctx_stage, ray_up, queue, running, phase, refs>>
    /\ pipeline' = "None"
    /\ initialized' = FALSE

\* main.py lines 71-75 and inference_engine.py lines 72-74: the worker
\* stops and cleans up the engine.
Cleanup ==
    /\ init_pc = "done"
    /\ cleanup
    /\ UNCHANGED <<init_pc, init_outcome, loaded, gen_outcome>>
    /\ UNCHANGED <<caller_pc, call_id, kwargs, started, requests>>
    /\ UNCHANGED outsideLife

\* generate() that asks only whether initialize() once returned.
AcceptsOnceInitialized == init_outcome = "returned"

\* mochi_model.py line 173: generate() goes on if self._initialized.
Accepts == initialized

\* mochi_model.py lines 171-174: generate() on a model that is not
\* initialized raises RuntimeError; inference_engine.py lines 67-70 then
\* call cleanup().
GenerateRefused(c) ==
    /\ caller_pc[c] = "idle"
    /\ ~Accepts
    /\ gen_outcome' = [gen_outcome EXCEPT ![c] = "RuntimeError"]
    /\ cleanup
    /\ UNCHANGED <<init_pc, init_outcome, loaded>>
    /\ UNCHANGED <<caller_pc, call_id, kwargs, started, requests>>
    /\ UNCHANGED outsideLife

\* mochi_model.py lines 173-232: generate() on an initialized model calls
\* the pipeline in a thread.
GenerateCalls(c, k) ==
    /\ Accepts
    /\ Call(c, k)

\* mochi_model.py lines 226-249 and inference_engine.py lines 51-70:
\* __call__ has returned the frames, generate() returns; or it has raised,
\* and process() calls cleanup() before it raises.
GenerateEnds(c) ==
    /\ caller_pc[c] \in {"returned", "raised"}
    /\ caller_pc' = [caller_pc EXCEPT ![c] = "idle"]
    /\ IF caller_pc[c] = "returned"
       THEN /\ gen_outcome' = [gen_outcome EXCEPT ![c] = "frames"]
            /\ UNCHANGED <<pipeline, initialized, ctx_stage, ray_up, queue,
                           running, phase, refs>>
       ELSE /\ gen_outcome' = [gen_outcome EXCEPT ![c] = "RayTaskError"]
            /\ cleanup
    /\ UNCHANGED <<init_pc, init_outcome, loaded>>
    /\ UNCHANGED <<call_id, kwargs, started, requests>>
    /\ UNCHANGED outsideLife

LifeInit ==
    /\ CoordInit /\ ~work_complete /\ ~dir_exists
    /\ NoShards /\ NoPipe /\ NoModel /\ NoWorker /\ NoCp /\ NoPack /\ NoBlend
    /\ NoNorm /\ NoLoop

LifeNext ==
    \/ Initialize
    \/ \E r \in Ctxs :
          \/ CtxStep(r)
          \/ CtxFails(r)
          \/ RunStarts(r)
          \/ RunReturns(r)
          \/ RunRaises(r)
    \/ GroupJoined
    \/ AllGather
    \/ ReadyReturns
    \/ ReadyTimesOut
    \/ ReadyFails
    \/ Cleanup
    \/ GenerateRefused(MainCaller)
    \/ \E k \in Kwargs : GenerateCalls(MainCaller, k)
    \/ Submit(MainCaller)
    \/ Get(MainCaller)
    \/ GenerateEnds(MainCaller)

\* MochiModel from construction to teardown, one thread generating.
SpecLife == LifeInit /\ [][LifeNext]_vars

(* ------------------------ claims: coordinator -------------------------- *)

InDoWork == {p \in Procs : pc[p] = "do_work"}

\* C1: at most one pod is inside do_work at any time, in every
\* interleaving (a holder's do_work fails, a waiter times out, a waiter
\* leaves because the lock file vanished).
C1_MutualExclusion == Cardinality(InDoWork) <= 1

\* Every pod has called, each call found is_complete() false, and no
\* do_work has raised: do_work makes is_complete() true when it finishes.
C2_Scenario ==
    \A p \in Procs : path[p] \notin {"none", "fast"} /\ raised[p] = "none"

AllCallsEnded == \A p \in Procs : pc[p] = "idle"

\* C2: N pods call concurrently while is_complete() is false and do_work
\* completes the work: do_work is executed exactly once in total and every
\* other caller returns without error.
C2_ExactlyOnce ==
    C2_Scenario =>
        /\ runs <= 1
        /\ AllCallsEnded =>
              /\ runs = 1
              /\ \A p \in Procs : outcome[p] = "returned"

\* C3: if do_work raises E, the call raises that same E after the lock
\* file was removed: it never returns normally, never enters the wait loop
\* and never replaces E, whatever the type of E.
C3_SameExceptionPropagates ==
    \A p \in Procs :
        raised[p] # "none" =>
            /\ pc[p] \notin WaitPcs
            /\ pc[p] = "idle" => outcome[p] = raised[p]

\* A step that is a call entered while is_complete() is true.
FastPathStep == work_complete /\ calls' # calls

\* C4 as stated: a call entered with is_complete() true returns at once
\* without touching the lock file, without do_work and with no other side
\* effect at all.
C4_NoSideEffect ==
    [][FastPathStep =>
          UNCHANGED <<pc, work_complete, lock_file, inodes, flock, f, runs,
                      dir_exists>>]_vars

\* C4 amended: a call entered with is_complete() true returns at once
\* without opening, creating, locking or deleting the lock file and
\* without do_work; its one side effect is that work_dir exists afterwards
\* (the mkdir of line 30 precedes the fast path).
C4_FastPathLeavesLockAlone ==
    [][FastPathStep =>
          /\ UNCHANGED <<pc, work_complete, lock_file, inodes, flock, f, runs>>
          /\ dir_exists']_vars

\* A call that came after the work had been done by do_work took the
\* fast path.
C4_Witness ==
    \E p \in Procs : path[p] = "fast" /\ outcome[p] = "returned" /\ runs >= 1

\* C5: the pod that acquired the lock leaves the call, by whatever path
\* (do_work succeeded, do_work raised, the re-check found the work
\* complete), with the lock file removed.
C5_HolderRemovesLockFile ==
    [][\A p \in Procs :
          (pc[p] = "finally" /\ locked[p] /\ pc'[p] = "idle")
              => lock_file' = 0]_vars

\* A holder whose do_work raised has left, and the lock file is gone.
C5_Witness ==
    \E p \in Procs :
        /\ pc[p] = "idle" /\ locked[p]
        /\ raised[p] = "RuntimeError" /\ outcome[p] = "RuntimeError"
        /\ lock_file = 0

\* C6: a waiter that found the lock file gone while the work is still
\* incomplete makes the call signal "retry needed": its caller can tell
\* this outcome from successful completion.
C6_RetrySignalled ==
    \A p \in Procs :
        (pc[p] = "idle" /\ path[p] = "wait_lock_gone" /\ ~work_complete)
            => outcome[p] # "returned"

\* A step by which pod p leaves the wait loop.
LeavesWait(p) == pc[p] \in WaitPcs /\ pc'[p] \notin WaitPcs

\* C7 as stated: the wait ends in TimeoutError exactly when max_wait has
\* elapsed and, at that moment, is_complete() is false and the lock file
\* exists.
C7_TimeoutIffNeitherHolds ==
    [][\A p \in Procs :
          LeavesWait(p) =>
              (exc'[p] = "TimeoutError"
                  <=> /\ waited[p] >= max_wait_seconds
                      /\ ~work_complete
                      /\ lock_file_exists)]_vars

\* C7 amended: the wait ends in TimeoutError exactly when its counter has
\* reached max_wait_seconds, that is when every poll it made found
\* is_complete() false and the lock file present; a wait ended by a poll
\* (work complete, or lock file gone) never raises it.  The conditions are
\* not polled again after the last sleep.
C7_TimeoutIffLoopExhausted ==
    [][\A p \in Procs :
          LeavesWait(p) =>
              /\ exc'[p] = "TimeoutError" <=> waited[p] >= max_wait_seconds
              /\ exc'[p] = "TimeoutError" =>
                    pc[p] = "wait" /\ path'[p] = "wait_timeout"
              /\ exc'[p] # "TimeoutError" =>
                    \/ pc[p] = "wait" /\ work_complete
                    \/ pc[p] = "exists" /\ ~lock_file_exists]_vars

\* A waiter has timed out, and another has left because the lock file
\* was gone.
C7_Witness ==
    /\ \E p \in Procs : pc[p] = "close" /\ exc[p] = "TimeoutError"
    /\ \E p \in Procs : pc[p] = "idle" /\ path[p] = "wait_lock_gone"
                         /\ outcome[p] = "returned"

(* -------------------------- claims: sharding --------------------------- *)

\* shards_dir holds none of the checkpoint's files.
NoArtifact == ~dir_exists \/ (~metadata /\ rank_files = {})

\* C8: if shard creation fails at any point after it has started (actor
\* creation, actor initialization, checkpoint save, validation), then when
\* create_shards returns, shards_dir does not exist or holds no artifact
\* file and all_shards_exist() is false.
C8_NoPartialArtifact ==
    [][\A p \in Pods :
          (pc[p] = "finally" /\ raised[p] # "none" /\ pc'[p] = "idle")
              => NoArtifact' /\ ~all_shards_exist']_vars

\* C9: all_shards_exist() is true if and only if the .metadata file and
\* the rank file of each of the world_size ranks exist in shards_dir.
C9_CompleteIffAllFiles ==
    all_shards_exist <=>
        (dir_exists /\ metadata /\ Cardinality(rank_files) = world_size)

\* One pod found the directory incomplete and created the checkpoint;
\* another pod then found it complete and took the fast path.
C9_Witness ==
    /\ \E p, q \in Pods : path[p] = "fast" /\ path[q] = "work_done"
    /\ metadata /\ rank_files = Ranks /\ all_shards_exist

(* -------------------------- claims: pipeline --------------------------- *)

\* The tasks context r holds: queued or running.
TasksAt(r) ==
    {queue[r][i] : i \in 1..Len(queue[r])}
        \cup (IF running[r] = NoTask THEN {} ELSE {running[r]})

\* The tasks of caller c's present call that context r has not finished.
TasksOf(c, r) == {t \in TasksAt(r) : t.call = call_id[c]}

\* C10: __call__ submits the same function and the same request arguments
\* to every rank context, waits until all contexts have completed, and
\* only then returns one result, that of rank 0.
C10_FanOutThenRankZero ==
    /\ \A r, k \in Ctxs : \A t \in TasksAt(r) : \A u \in TasksAt(k) :
          t.call = u.call => t.fn = u.fn /\ t.kwargs = u.kwargs
    /\ \A c \in Callers :
          /\ \A r \in Ctxs : \A t \in TasksOf(c, r) :
                t.fn = "sample" /\ t.kwargs = kwargs[c]
          /\ caller_pc[c] = "get" => Submitted(c) = Ctxs
          /\ caller_pc[c] = "returned" =>
                /\ \A r \in Ctxs :
                      refs[c][r].state = "value" /\ TasksOf(c, r) = {}
                /\ Result(c).rank = 0

\* A call has returned rank 0's frames of its own request.
C10_Witness ==
    \E c \in Callers :
        /\ caller_pc[c] = "returned"
        /\ Result(c).rank = 0
        /\ Result(c).frames = [k \in Ctxs |-> kwargs[c]]

\* Some rank raised while running caller c's present request.
RankFailed(c) == \E r \in Ctxs : refs[c][r].state = "error"

\* C11: if any rank, rank 0 or another, raises while running a request,
\* __call__ raises to its caller: it never returns (rank 0's result or any
\* other) when some rank failed, and it raises only when a rank failed.
C11_RankFailureSurfaced ==
    \A c \in Callers :
        /\ RankFailed(c) => caller_pc[c] # "returned"
        /\ caller_pc[c] = "raised" => RankFailed(c)

\* Rank 0 produced frames, rank 1 raised, and the call raised.
C11_Witness ==
    \E c \in Callers :
        /\ caller_pc[c] = "raised"
        /\ refs[c][0].state = "value"
        /\ refs[c][1].state = "error"

\* The calls the contexts are running now.
InExecution == {running[r].call : r \in {k \in Ctxs : running[k] # NoTask}}

\* Sequence a is a prefix of sequence b.
IsPrefix(a, b) == Len(a) <= Len(b) /\ \A i \in 1..Len(a) : a[i] = b[i]

\* C12: at any time at most one request is in execution across the
\* ranks (no rank runs request k+1 while another rank still runs request
\* k), and all ranks execute the requests in the same order, also when
\* several jobs run concurrently (max_concurrent_jobs > 1).
C12_OneRequestAtATime ==
    /\ Cardinality(InExecution) <= 1
    /\ \A r, k \in Ctxs :
          IsPrefix(started[r], started[k]) \/ IsPrefix(started[k], started[r])

(* -------------------------- claims: lifecycle -------------------------- *)

\* The actor of rank r runs: it was started and neither died nor was
\* killed.
CtxLive(r) == ctx_stage[r] \notin {"none", "failed", "killed"}

\* C13: construction blocks until every rank context is ready; if the
\* 120 s initialization timeout is exceeded, construction fails with the
\* timeout error and every context that had started is cleaned up before
\* the error reaches the caller.
C13_InitTimeoutCleansUp ==
    [][/\ init_outcome' = "returned" => AllReady'
       /\ (init_outcome = "none" /\ init_outcome' = "GetTimeoutError")
             => \A r \in Ctxs : ~CtxLive(r)']_vars

\* The model components of loaded[r], in the order they were loaded.
Components(r) ==
    SelectSeq(loaded[r], LAMBDA x : x \in {"text_encoder", "dit", "decoder"})

\* C14: in each rank context the process group is joined exactly once and
\* before any component is loaded; the components are loaded in the order
\* text encoder, DiT, decoder; the context executes run(fn) only after all
\* three loads.
C14_JoinThenLoadInOrder ==
    \A r \in Ctxs :
        /\ loaded[r] # <<>> => loaded[r][1] = "group"
        /\ Cardinality({i \in 1..Len(loaded[r]) : loaded[r][i] = "group"}) <= 1
        /\ IsPrefix(Components(r), <<"text_encoder", "dit", "decoder">>)
        /\ running[r] # NoTask =>
              Components(r) = <<"text_encoder", "dit", "decoder">>

\* Both contexts run a task, each after its three loads.
C14_Witness ==
    \A r \in Ctxs :
        /\ running[r] # NoTask
        /\ Components(r) = <<"text_encoder", "dit", "decoder">>

\* C15: if a rank's context fails during the process-group join or a model
\* load, construction fails: no pipeline object is returned, MochiModel
\* stays uninitialized (pipeline None, _initialized False) and a later
\* generate() is refused.
C15_FailedInitLeavesNoPipeline ==
    /\ init_outcome = "returned" => \A r \in Ctxs : loaded[r] = InitOrder
    /\ init_outcome \in {"RayActorError", "GetTimeoutError"} =>
          /\ pipeline = "None"
          /\ ~initialized
          /\ requests = 0
          /\ \A c \in Callers : caller_pc[c] = "idle"
          /\ \A c \in Callers : gen_outcome[c] \in {"none", "RuntimeError"}

\* Rank 1 raised while loading the DiT; initialize() raised and the
\* generate() that followed was refused.
C15_Witness ==
    /\ ctx_stage[1] = "failed"
    /\ loaded[1] = <<"group", "tokenizer", "text_encoder">>
    /\ init_outcome = "RayActorError"
    /\ gen_outcome[MainCaller] = "RuntimeError"

\* C16: after teardown, and before initialize(), no work is accepted:
\* generate() fails with RuntimeError, nothing is submitted to the
\* contexts and no context runs a task.
C16_NoWorkAfterTeardown ==
    [][/\ \A c \in Callers :
             (~initialized /\ caller_pc[c] = "idle")
                 => /\ caller_pc'[c] = "idle"
                    /\ requests' = requests
                    /\ gen_outcome'[c] \in {gen_outcome[c], "RuntimeError"}
       /\ ~initialized' =>
             \A r \in Ctxs : queue'[r] = <<>> /\ running'[r] = NoTask]_vars

\* A generate() produced frames, the model was torn down, and the next
\* generate() was refused.
C16_Witness ==
    /\ init_outcome = "returned"
    /\ ~initialized /\ pipeline = "None"
    /\ requests >= 1
    /\ \A r \in Ctxs : ctx_stage[r] = "killed"
    /\ gen_outcome[MainCaller] = "RuntimeError"

(* ----------------------------- main.py --------------------------------- *)

\* SpeechfaceWorker when _process_loop starts: nothing received yet; each
\* message of the queue either carries a body that parses or does not.
WorkerInit ==
    /\ CoordInit /\ ~work_complete /\ ~dir_exists
    /\ NoShards /\ NoPipe /\ ModelReady /\ NoCp /\ NoPack /\ NoBlend
    /\ NoNorm /\ NoLoop
    /\ worker_running = TRUE
    /\ current_jobs = 0
    /\ job_pc = [m \in Messages |-> "queued"]
    /\ body_ok \in [Messages -> BOOLEAN]
    /\ job_status = [m \in Messages |-> "queued"]
    /\ job_error = [m \in Messages |-> "none"]
    /\ failed_with = [m \in Messages |-> "none"]
    /\ swallowed = [m \in Messages |-> "none"]
    /\ deletes = [m \in Messages |-> 0]
    /\ errors = 0
    /\ successes = 0

\* an exception e raised inside the try of _process_message: control goes
\* to the except clause of line 181
Raise(m, e) ==
    /\ job_pc' = [job_pc EXCEPT ![m] = "except"]
    /\ failed_with' = [failed_with EXCEPT ![m] = e]
    /\ UNCHANGED <<worker_running, current_jobs, body_ok, job_status,
                   job_error, swallowed, deletes, errors, successes>>

\* one round of _process_loop that receives message m: lines 100-127
Receive(m) ==
    /\ worker_running
    /\ current_jobs < max_concurrent_jobs
    /\ job_pc[m] = "queued"
    /\ job_pc' = [job_pc EXCEPT ![m] = "parse"]
    /\ current_jobs' = current_jobs + 1
    /\ UNCHANGED <<worker_running, body_ok, job_status, job_error,
                   failed_with, swallowed, deletes, errors, successes>>
    /\ UNCHANGED outsideWorker

\* lines 136-144: the receipt handle, then json.loads and the two keys
Parse(m) ==
    /\ job_pc[m] = "parse"
    /\ IF body_ok[m]
         THEN /\ job_pc' = [job_pc EXCEPT ![m] = "get_job"]
              /\ UNCHANGED <<worker_running, current_jobs, body_ok,
                             job_status, job_error, failed_with, swallowed,
                             deletes, errors, successes>>
         ELSE Raise(m, "JSONDecodeError")
    /\ UNCHANGED outsideWorker

\* lines 147-150: _get_job_data returns the item, or {} when there is none
\* or the read failed (lines 217-219), and {} ends the handler
GetJobData(m) ==
    /\ job_pc[m] = "get_job"
    /\ \E found \in BOOLEAN :
         job_pc' = [job_pc EXCEPT ![m] = IF found THEN "set_processing"
                                                  ELSE "finally"]
    /\ UNCHANGED <<worker_running, current_jobs, body_ok, job_status,
                   job_error, failed_with, swallowed, deletes, errors,
                   successes>>
    /\ UNCHANGED outsideWorker

\* line 153: _update_job_status(..., 'processing')
UpdateProcessing(m) ==
    /\ job_pc[m] = "set_processing"
    /\ \/ /\ job_pc' = [job_pc EXCEPT ![m] = "process"]
          /\ job_status' = [job_status EXCEPT ![m] = "processing"]
          /\ UNCHANGED <<worker_running, current_jobs, body_ok, job_error,
                         failed_with, swallowed, deletes, errors, successes>>
       \/ Raise(m, "ClientError")
    /\ UNCHANGED outsideWorker

\* line 165: inference_engine.process(request)
Process(m) ==
    /\ job_pc[m] = "process"
    /\ \/ /\ job_pc' = [job_pc EXCEPT ![m] = "upload"]
          /\ UNCHANGED <<worker_running, current_jobs, body_ok, job_status,
                         job_error, failed_with, swallowed, deletes, errors,
                         successes>>
       \/ Raise(m, "RuntimeError")
    /\ UNCHANGED outsideWorker

\* line 169: _upload_result
UploadResult(m) ==
    /\ job_pc[m] = "upload"
    /\ \/ /\ job_pc' = [job_pc EXCEPT ![m] = "set_completed"]
          /\ UNCHANGED <<worker_running, current_jobs, body_ok, job_status,
                         job_error, failed_with, swallowed, deletes, errors,
                         successes>>
       \/ Raise(m, "S3UploadFailedError")
    /\ UNCHANGED outsideWorker

\* lines 172-179: _update_job_status(..., 'completed'), then the success
\* counter
UpdateCompleted(m) ==
    /\ job_pc[m] = "set_completed"
    /\ \/ /\ job_pc' = [job_pc EXCEPT ![m] = "finally"]
          /\ job_status' = [job_status EXCEPT ![m] = "completed"]
          /\ successes' = successes + 1
          /\ UNCHANGED <<worker_running, current_jobs, body_ok, job_error,
                         failed_with, swallowed, deletes, errors>>
       \/ Raise(m, "ClientError")
    /\ UNCHANGED outsideWorker

\* the except clause without line 195
ExceptNoCount(m) ==
    /\ job_pc[m] = "except"
    /\ job_pc' = [job_pc EXCEPT ![m] = "finally"]
    /\ \/ /\ ~body_ok[m]
          /\ swallowed' = [swallowed EXCEPT ![m] = "JSONDecodeError"]
          /\ UNCHANGED <<job_status, job_error>>
       \/ /\ body_ok[m]
          /\ swallowed' = [swallowed EXCEPT ![m] = "ClientError"]
          /\ UNCHANGED <<job_status, job_error>>
       \/ /\ body_ok[m]
          /\ job_status' = [job_status EXCEPT ![m] = "failed"]
          /\ job_error' = [job_error EXCEPT ![m] = failed_with[m]]
          /\ UNCHANGED swallowed
    /\ UNCHANGED <<worker_running, current_jobs, body_ok, failed_with,
                   deletes, errors, successes>>
    /\ UNCHANGED outsideWorker

\* lines 181-195: the body is parsed again and the job is set to 'failed'
\* with str(e); an exception of either is caught at line 191; then the
\* error counter
Except(m) ==
    /\ job_pc[m] = "except"
    /\ job_pc' = [job_pc EXCEPT ![m] = "finally"]
    /\ \/ /\ ~body_ok[m]
          /\ swallowed' = [swallowed EXCEPT ![m] = "JSONDecodeError"]
          /\ UNCHANGED <<job_status, job_error>>
       \/ /\ body_ok[m]
          /\ swallowed' = [swallowed EXCEPT ![m] = "ClientError"]
          /\ UNCHANGED <<job_status, job_error>>
       \/ /\ body_ok[m]
          /\ job_status' = [job_status EXCEPT ![m] = "failed"]
          /\ job_error' = [job_error EXCEPT ![m] = failed_with[m]]
          /\ UNCHANGED swallowed
    /\ errors' = errors + 1
    /\ UNCHANGED <<worker_running, current_jobs, body_ok, failed_with,
                   deletes, successes>>
    /\ UNCHANGED outsideWorker

\* the task ends without the finally clause of lines 197-206
EndWithoutDelete(m) ==
    /\ job_pc[m] = "finally"
    /\ job_pc' = [job_pc EXCEPT ![m] = "done"]
    /\ current_jobs' = current_jobs - 1
    /\ UNCHANGED <<worker_running, body_ok, job_status, job_error,
                   failed_with, swallowed, deletes, errors, successes>>
    /\ UNCHANGED outsideWorker

\* lines 197-206: delete_message, whose exception is caught; the task is
\* done and job_finished runs (lines 125-127)
DeleteMessage(m) ==
    /\ job_pc[m] = "finally"
    /\ job_pc' = [job_pc EXCEPT ![m] = "done"]
    /\ deletes' = [deletes EXCEPT ![m] = @ + 1]
    /\ current_jobs' = current_jobs - 1
    /\ UNCHANGED <<worker_running, body_ok, job_status, job_error,
                   failed_with, swallowed, errors, successes>>
    /\ UNCHANGED outsideWorker

WorkerNext ==
    \E m \in Messages :
        \/ Receive(m)
        \/ Parse(m)
        \/ GetJobData(m)
        \/ UpdateProcessing(m)
        \/ Process(m)
        \/ UploadResult(m)
        \/ UpdateCompleted(m)
        \/ Except(m)
        \/ DeleteMessage(m)

SpecWorker == WorkerInit /\ [][WorkerNext]_vars

\* the messages whose processing failed and whose except clause is over
Failed == {m \in Messages : failed_with[m] # "none"
                               /\ job_pc[m] \in {"finally", "done"}}

CpRanks == 0..(cp_size - 1)

\* a tensor (B, C, T, H, W) is the sequence of its T frames; frame i of the
\* tensor rank r passes in is <<r, i>>, and a frame F.pad adds is Pad
Pad == <<0 - 1, 0>>
FramesOf(r, t) == [i \in 1..t |-> <<r, i>>]

\* the longest latent the ranks split
MaxLatent == MaxT * MaxCpSize

CpOps == {"gather_all_frames", "cp_pass_frames",
          "decode_latents_tiled_distributed"}

\* the ranks enter one of the functions: with a tensor of their own each
\* (gather_all_frames, cp_pass_frames) or with the same latent z on every
\* rank (decode_latents_tiled_distributed)
CpInit ==
    /\ CoordInit /\ ~work_complete /\ ~dir_exists
    /\ NoShards /\ NoPipe /\ ModelReady /\ NoWorker /\ NoPack /\ NoBlend
    /\ NoNorm /\ NoLoop
    /\ cp_op \in CpOps
    /\ cp_size \in 1..MaxCpSize
    /\ frames_to_send \in 0..MaxSend
    /\ cp_op # "cp_pass_frames" => frames_to_send = 0
    /\ IF cp_op = "decode_latents_tiled_distributed"
         THEN \E T \in 0..MaxLatent :
                  cp_x = [r \in CpRanks |-> FramesOf(0, T)]
         ELSE \E t \in [CpRanks -> 0..MaxT] :
                  cp_x = [r \in CpRanks |-> FramesOf(r, t[r])]
    /\ cp_pc = [r \in CpRanks |-> "start"]
    /\ cp_out = [r \in CpRanks |-> <<>>]
    /\ chan = [r \in CpRanks |-> <<>>]
    /\ cp_sent = [r \in CpRanks |-> 0]
    /\ cp_recv = [r \in CpRanks |-> 0]

\* rank r ends the function with the tensor out
CpReturn(r, out) ==
    /\ cp_pc' = [cp_pc EXCEPT ![r] = "done"]
    /\ cp_out' = [cp_out EXCEPT ![r] = out]

\* x[:, :, :k]
first_frames(xs, k) == SubSeq(xs, 1, k)

\* x[:, :, -frames_to_send:] of line 33
last_frames(xs, k) == SubSeq(xs, Len(xs) - k + 1, Len(xs))

\* cp_pass_frames, lines 23-25: nothing to pass, x is returned
PassNothing(r) ==
    /\ r \in CpRanks
    /\ cp_op = "cp_pass_frames"
    /\ cp_pc[r] = "start"
    /\ frames_to_send = 0 \/ cp_size = 1
    /\ CpReturn(r, cp_x[r])
    /\ UNCHANGED <<cp_op, cp_size, frames_to_send, cp_x, chan, cp_sent,
                   cp_recv>>
    /\ UNCHANGED outsideCp

\* cp_pass_frames, lines 27-34: every rank but the last sends the tail of
\* its x to the next rank, after the assert of line 32
PassSend(r) ==
    /\ r \in CpRanks
    /\ cp_op = "cp_pass_frames"
    /\ cp_pc[r] = "start"
    /\ frames_to_send # 0 /\ cp_size # 1
    /\ IF r < cp_size - 1
         THEN IF Len(cp_x[r]) >= frames_to_send
              THEN /\ chan' = [chan EXCEPT ![r + 1] =
                                   last_frames(cp_x[r], frames_to_send)]
                   /\ cp_sent' = [cp_sent EXCEPT ![r] = @ + 1]
                   /\ cp_pc' = [cp_pc EXCEPT ![r] = "recv"]
              ELSE /\ cp_pc' = [cp_pc EXCEPT ![r] = "AssertionError"]
                   /\ UNCHANGED <<chan, cp_sent>>
         ELSE /\ cp_pc' = [cp_pc EXCEPT ![r] = "recv"]
              /\ UNCHANGED <<chan, cp_sent>>
    /\ UNCHANGED <<cp_op, cp_size, frames_to_send, cp_x, cp_out, cp_recv>>
    /\ UNCHANGED outsideCp

\* cp_pass_frames, lines 36-47: every rank but the first waits for the
\* frames of the previous rank and puts them in front of its x
PassRecv(r) ==
    /\ r \in CpRanks
    /\ cp_op = "cp_pass_frames"
    /\ cp_pc[r] = "recv"
    /\ IF r > 0
         THEN /\ chan[r] # <<>>
              /\ CpReturn(r, chan[r] \o cp_x[r])
              /\ chan' = [chan EXCEPT ![r] = <<>>]
              /\ cp_recv' = [cp_recv EXCEPT ![r] = @ + 1]
         ELSE /\ CpReturn(r, cp_x[r])
              /\ UNCHANGED <<chan, cp_recv>>
    /\ UNCHANGED <<cp_op, cp_size, frames_to_send, cp_x, cp_sent>>
    /\ UNCHANGED outsideCp

\* lines 50-55
pad_to_max(xs, max_T) ==
    IF max_T > Len(xs)
    THEN xs \o [i \in 1..(max_T - Len(xs)) |-> Pad]
    ELSE xs

\* max(all_T) of line 85
MaxOf(all_T) ==
    CHOOSE t \in {all_T[i] : i \in DOMAIN all_T} :
        \A i \in DOMAIN all_T : all_T[i] <= t

\* torch.cat(tensors, dim=2) of the first n tensors of a list
RECURSIVE cat(_, _)
cat(tensors, n) ==
    IF n = 0 THEN <<>> ELSE cat(tensors, n - 1) \o tensors[n - 1]

\* gather_all_frames without the slicing of lines 95-96
gather_all_frames_unsliced(xs) ==
    IF cp_size = 1
    THEN xs[0]
    ELSE LET all_T == [i \in CpRanks |-> Len(xs[i])]
             max_T == MaxOf(all_T)
             gathered_x == [i \in CpRanks |-> pad_to_max(xs[i], max_T)]
         IN  cat(gathered_x, cp_size)

\* gather_all_frames, lines 58-98, of the tensors xs[i] the ranks pass in;
\* every rank is given the same result
gather_all_frames(xs) ==
    IF cp_size = 1
    THEN xs[0]
    ELSE LET all_T == [i \in CpRanks |-> Len(xs[i])]
             max_T == MaxOf(all_T)
             padded == [i \in CpRanks |-> pad_to_max(xs[i], max_T)]
             gathered_x ==
                 [idx \in CpRanks |-> first_frames(padded[idx], all_T[idx])]
         IN  cat(gathered_x, cp_size)

GatherAllFrames(r) ==
    /\ r \in CpRanks
    /\ cp_op = "gather_all_frames"
    /\ cp_pc[r] = "start"
    /\ CpReturn(r, gather_all_frames(cp_x))
    /\ UNCHANGED <<cp_op, cp_size, frames_to_send, cp_x, chan, cp_sent,
                   cp_recv>>
    /\ UNCHANGED outsideCp

Min(a, b) == IF a < b THEN a ELSE b

\* a split into n sections of which the last takes what is left over
tensor_split_rest_last(zs, n, r) ==
    LET q == Len(zs) \div n
    IN  IF r = n - 1 THEN SubSeq(zs, r * q + 1, Len(zs))
                     ELSE SubSeq(zs, r * q + 1, r * q + q)

\* z.tensor_split(n, dim=2)[r]: the first Len(z) % n sections have
\* Len(z) div n + 1 frames, the others Len(z) div n
tensor_split(zs, n, r) ==
    LET q == Len(zs) \div n
        m == Len(zs) % n
        begin == r * q + Min(r, m)
        size == IF r < m THEN q + 1 ELSE q
    IN  SubSeq(zs, begin + 1, begin + size)

\* decode_latents_tiled_distributed, lines 386-390: the slice of z that
\* rank r hands to _run_tiled_decode_on_slice
DecodeSlice(r) ==
    /\ r \in CpRanks
    /\ cp_op = "decode_latents_tiled_distributed"
    /\ cp_pc[r] = "start"
    /\ CpReturn(r, IF cp_size > 1 THEN tensor_split(cp_x[r], cp_size, r)
                                  ELSE cp_x[r])
    /\ UNCHANGED <<cp_op, cp_size, frames_to_send, cp_x, chan, cp_sent,
                   cp_recv>>
    /\ UNCHANGED outsideCp

CpNext ==
    \E r \in 0..(MaxCpSize - 1) :
        \/ PassNothing(r)
        \/ PassSend(r)
        \/ PassRecv(r)
        \/ GatherAllFrames(r)
        \/ DecodeSlice(r)

SpecCp == CpInit /\ [][CpNext]_vars

\* the frames the ranks before rank r pass in, counted
RECURSIVE FramesBefore(_)
FramesBefore(r) ==
    IF r = 0 THEN 0 ELSE FramesBefore(r - 1) + Len(cp_x[r - 1])

\* C18: what gather_all_frames gives a rank has as many frames as the ranks
\* passed in together, holds no padding frame, and holds frame j of rank i
\* at position (frames of the ranks before i) + j: the concatenation in
\* rank order, nothing duplicated or dropped.
C18_GatherConcatenatesInRankOrder ==
    \A r \in CpRanks :
        (cp_op = "gather_all_frames" /\ cp_pc[r] = "done") =>
            /\ Len(cp_out[r]) = FramesBefore(cp_size)
            /\ \A p \in 1..Len(cp_out[r]) : cp_out[r][p] # Pad
            /\ \A i \in CpRanks : \A j \in 1..Len(cp_x[i]) :
                 cp_out[r][FramesBefore(i) + j] = cp_x[i][j]

\* three ranks with 1, 2 and 1 frames have gathered 4 frames
C18_Witness ==
    /\ cp_op = "gather_all_frames"
    /\ cp_size = 3
    /\ Len(cp_x[0]) = 1 /\ Len(cp_x[1]) = 2 /\ Len(cp_x[2]) = 1
    /\ \A r \in CpRanks : cp_pc[r] = "done" /\ Len(cp_out[r]) = 4

\* the number of frames of section r when the first Len(z) % n sections
\* take one frame more
SectionSize(r) ==
    (Len(cp_x[r]) \div cp_size)
        + (IF r < Len(cp_x[r]) % cp_size THEN 1 ELSE 0)

RECURSIVE SectionStart(_)
SectionStart(r) ==
    IF r = 0 THEN 0 ELSE SectionStart(r - 1) + SectionSize(r - 1)

\* the number of frames of section r when the last section takes the
\* remainder
SectionSizeRestLast(r) ==
    IF r = cp_size - 1
    THEN Len(cp_x[r]) - (cp_size - 1) * (Len(cp_x[r]) \div cp_size)
    ELSE Len(cp_x[r]) \div cp_size

RECURSIVE SectionStartRestLast(_)
SectionStartRestLast(r) ==
    IF r = 0 THEN 0
    ELSE SectionStartRestLast(r - 1) + SectionSizeRestLast(r - 1)

\* C19 as stated: rank r decodes the r-th of cp_size contiguous sections
\* of z of which the last takes the remainder.
C19_LastChunkAbsorbsRemainder ==
    \A r \in CpRanks :
        (cp_op = "decode_latents_tiled_distributed" /\ cp_pc[r] = "done") =>
            cp_out[r] = SubSeq(cp_x[r], SectionStartRestLast(r) + 1,
                               SectionStartRestLast(r)
                                   + SectionSizeRestLast(r))

\* C19: rank r decodes only the r-th of cp_size sections of z; the sections
\* are contiguous, disjoint, in rank order and cover every frame of z; the
\* first Len(z) % cp_size sections have one frame more than the others.
C19_ContiguousSectionsInRankOrder ==
    \A r \in CpRanks :
        (cp_op = "decode_latents_tiled_distributed" /\ cp_pc[r] = "done") =>
            /\ cp_out[r] = SubSeq(cp_x[r], SectionStart(r) + 1,
                                  SectionStart(r) + SectionSize(r))
            /\ SectionStart(cp_size) = Len(cp_x[r])

\* five latent frames over three ranks: sections of 2, 2 and 1 frames
C19_Witness ==
    /\ cp_op = "decode_latents_tiled_distributed"
    /\ cp_size = 3
    /\ \A r \in CpRanks : cp_pc[r] = "done" /\ Len(cp_x[r]) = 5
    /\ Len(cp_out[0]) = 2 /\ Len(cp_out[1]) = 2 /\ Len(cp_out[2]) = 1

\* C20: with frames_to_send > 0 and more than one rank, rank 0 sends once,
\* receives nothing and returns its input; the last rank sends nothing; a
\* rank r > 0 receives once and returns the last frames_to_send frames of
\* the input of rank r - 1 followed by its own input.  With frames_to_send
\* = 0 or a single rank every rank returns its input and nothing is sent.
C20_PassFramesFromPreviousRank ==
    cp_op = "cp_pass_frames" =>
        IF frames_to_send = 0 \/ cp_size = 1
        THEN \A r \in CpRanks :
                 /\ cp_sent[r] = 0 /\ cp_recv[r] = 0 /\ chan[r] = <<>>
                 /\ cp_pc[r] = "done" => cp_out[r] = cp_x[r]
        ELSE \A r \in CpRanks :
                 /\ r = cp_size - 1 => cp_sent[r] = 0
                 /\ r = 0 => cp_recv[r] = 0
                 /\ (cp_pc[r] = "done" /\ r = 0) =>
                        cp_out[r] = cp_x[r] /\ cp_sent[r] = 1
                 /\ (cp_pc[r] = "done" /\ r > 0) =>
                        /\ cp_recv[r] = 1
                        /\ Len(cp_out[r]) = Len(cp_x[r]) + frames_to_send
                        /\ cp_out[r] =
                               SubSeq(cp_x[r - 1],
                                      Len(cp_x[r - 1]) - frames_to_send + 1,
                                      Len(cp_x[r - 1])) \o cp_x[r]

\* three ranks with two frames each have passed one frame on: rank 2 has
\* the last frame of rank 1's input in front, not a frame of rank 0
C20_Witness ==
    /\ cp_op = "cp_pass_frames"
    /\ cp_size = 3 /\ frames_to_send = 1
    /\ \A r \in CpRanks : cp_pc[r] = "done" /\ Len(cp_x[r]) = 2
    /\ cp_out[0] = cp_x[0]
    /\ cp_out[1] = <<cp_x[0][2]>> \o cp_x[1]
    /\ cp_out[2] = <<cp_x[1][2]>> \o cp_x[2]

(* -------------------- genmo/mochi/patch/triton_pack.py ------------------ *)

\* the sizes the tensors are drawn with
Sizes == {1, 2}

\* the rows of X and Y are all different and none is the zero row
Zero == 0
XRow(b, n) == 100 * b + n
YRow(b, l) == 100 * b + 50 + l

\* a row read from memory outside the tensors
Garbage == 0 - 1

Total == shape.N + shape.L
Batch == 0..(shape.B - 1)
InRange(idx) == 0 <= idx /\ idx < shape.B * Total
AllInRange == \A t \in 1..Len(valid_token_indices) :
                  InRange(valid_token_indices[t])

\* the interpreter starts on triton_pack.py: the environment and whether
\* triton can be imported are given, and so are the tensors and the index
\* list of the call that will be made
PackInit ==
    /\ CoordInit /\ ~work_complete /\ ~dir_exists
    /\ NoShards /\ NoPipe /\ ModelReady /\ NoWorker /\ NoCp /\ NoBlend
    /\ NoNorm /\ NoLoop
    /\ TRITON_PACK \in {"0", "1"}
    /\ HAS_TRITON \in BOOLEAN
    /\ USE_TRITON_PACK = FALSE
    /\ pk_pc = "import"
    /\ shape \in [B : Sizes, N : Sizes, L : Sizes]
    /\ qx = [b \in Batch |-> [n \in 1..shape.N |-> XRow(b, n)]]
    /\ qy = [b \in Batch |-> [l \in 1..shape.L |-> YRow(b, l)]]
    /\ valid_token_indices \in
           UNION {[1..k -> (0 - 1)..(shape.B * Total)] : k \in 0..MaxIndices}
    /\ dst = <<>>
    /\ x_out = <<>>
    /\ y_out = <<>>

\* lines 1-26: HAS_TRITON, USE_TRITON_PACK, and then the decorator
\* @triton.jit, which names triton whether or not its import succeeded
Import ==
    /\ pk_pc = "import"
    /\ USE_TRITON_PACK' = (TRITON_PACK = "1" /\ HAS_TRITON)
    /\ pk_pc' = IF HAS_TRITON THEN "pack" ELSE "NameError"
    /\ UNCHANGED <<TRITON_PACK, HAS_TRITON, shape, qx, qy,
                   valid_token_indices, dst, x_out, y_out>>
    /\ UNCHANGED outsidePack

\* torch.cat([qy, qx], dim=1)
cat_yx(b) == qy[b] \o qx[b]

\* torch.cat([qx, qy], dim=1) of line 110, for batch item b
cat_xy(b) == qx[b] \o qy[b]

\* .contiguous().view(B * (N + L), D) of line 110: the batch items one
\* after the other
src_rows == cat([b \in Batch |-> cat_xy(b)], shape.B)

\* src.index_select(0, idx) of line 112
index_select ==
    [t \in 1..Len(valid_token_indices) |->
        src_rows[valid_token_indices[t] + 1]]

\* pack_cat_gather, lines 105-113: index_select raises on an index outside
\* the rows of src
PackFallback ==
    /\ pk_pc = "pack"
    /\ ~USE_TRITON_PACK
    /\ IF AllInRange
         THEN /\ dst' = index_select
              /\ pk_pc' = "unpack"
         ELSE /\ pk_pc' = "IndexError"
              /\ UNCHANGED dst
    /\ UNCHANGED <<TRITON_PACK, HAS_TRITON, USE_TRITON_PACK, shape, qx, qy,
                   valid_token_indices, x_out, y_out>>
    /\ UNCHANGED outsidePack

\* _pack_two_src_kernel, lines 35-59, for program t: the row it stores; an
\* index outside [0, B*(N+L)) makes it load from outside qx and qy
kernel_row(t) ==
    LET idx == valid_token_indices[t]
        b == idx \div Total
        pos == idx % Total
        is_x == pos < shape.N
    IN  IF ~InRange(idx) THEN Garbage
        ELSE IF is_x THEN qx[b][pos + 1] ELSE qy[b][pos - shape.N + 1]

\* the grid of line 128: one program per index
kernel_rows == [t \in 1..Len(valid_token_indices) |-> kernel_row(t)]

\* pack_cat_gather, lines 115-137; a load outside the tensors gives
\* whatever is there or stops the kernel with a CUDA error
PackTriton ==
    /\ pk_pc = "pack"
    /\ USE_TRITON_PACK
    /\ \/ /\ dst' = kernel_rows
          /\ pk_pc' = "unpack"
       \/ /\ ~AllInRange
          /\ pk_pc' = "CudaError"
          /\ UNCHANGED dst
    /\ UNCHANGED <<TRITON_PACK, HAS_TRITON, USE_TRITON_PACK, shape, qx, qy,
                   valid_token_indices, x_out, y_out>>
    /\ UNCHANGED outsidePack

\* the rows of the packed tensor that are written to flat position p; in a
\* round trip they are all the same row
Written(p) == {dst[t] : t \in {u \in 1..Len(valid_token_indices) :
                                  valid_token_indices[u] = p}}
RowAt(p) == IF Written(p) = {} THEN Zero ELSE CHOOSE v \in Written(p) : TRUE

\* full after index_copy_, line 155
full == [p \in 0..(shape.B * Total - 1) |-> RowAt(p)]

\* full.view(B, N + L, D)[:, :N] and [:, N:] of lines 156-157
split_x == [b \in Batch |-> [n \in 1..shape.N |-> full[b * Total + n - 1]]]
split_y ==
    [b \in Batch |-> [l \in 1..shape.L |->
        full[b * Total + shape.N + l - 1]]]

\* unpack_split_xy, lines 150-157: zeros, index_copy_ with the int32 index
\* of _ensure_i32, view, split.  index_copy_ is documented for a
\* LongTensor index: with the int32 one it raises or copies.
UnpackFallback ==
    /\ pk_pc = "unpack"
    /\ ~USE_TRITON_PACK
    /\ \/ /\ pk_pc' = "RuntimeError"
          /\ UNCHANGED <<x_out, y_out>>
       \/ /\ ~AllInRange
          /\ pk_pc' = "IndexError"
          /\ UNCHANGED <<x_out, y_out>>
       \/ /\ AllInRange
          /\ x_out' = split_x
          /\ y_out' = split_y
          /\ pk_pc' = "done"
    /\ UNCHANGED <<TRITON_PACK, HAS_TRITON, USE_TRITON_PACK, shape, qx, qy,
                   valid_token_indices, dst>>
    /\ UNCHANGED outsidePack

\* _unpack_split_kernel, lines 70-90, seen from row pos of x[b] or y[b]: the
\* programs whose index decodes to it store their row there
kernel_stored(b, pos) ==
    LET writers == {t \in 1..Len(valid_token_indices) :
                       /\ InRange(valid_token_indices[t])
                       /\ valid_token_indices[t] \div Total = b
                       /\ valid_token_indices[t] % Total = pos}
    IN  IF writers = {} THEN Zero
        ELSE dst[CHOOSE t \in writers : TRUE]

\* x and y after the grid of line 168
kernel_x == [b \in Batch |-> [n \in 1..shape.N |-> kernel_stored(b, n - 1)]]
kernel_y ==
    [b \in Batch |-> [l \in 1..shape.L |->
        kernel_stored(b, shape.N + l - 1)]]

\* unpack_split_xy, lines 159-176; a store outside x and y lands in other
\* memory or stops the kernel with a CUDA error
UnpackTriton ==
    /\ pk_pc = "unpack"
    /\ USE_TRITON_PACK
    /\ \/ /\ x_out' = kernel_x
          /\ y_out' = kernel_y
          /\ pk_pc' = "done"
       \/ /\ ~AllInRange
          /\ pk_pc' = "CudaError"
          /\ UNCHANGED <<x_out, y_out>>
    /\ UNCHANGED <<TRITON_PACK, HAS_TRITON, USE_TRITON_PACK, shape, qx, qy,
                   valid_token_indices, dst>>
    /\ UNCHANGED outsidePack

PackNext ==
    \/ Import
    \/ PackFallback
    \/ PackTriton
    \/ UnpackFallback
    \/ UnpackTriton

SpecPack == PackInit /\ [][PackNext]_vars

\* the index list names flat position p
Named(p) == \E t \in 1..Len(valid_token_indices) : valid_token_indices[t] = p

Distinct ==
    \A t, u \in 1..Len(valid_token_indices) :
        t # u => valid_token_indices[t] # valid_token_indices[u]

\* pack_cat_gather has returned
Packed == pk_pc \in {"unpack", "done", "RuntimeError"}

\* pack_cat_gather and then unpack_split_xy have been called
Unpacked == pk_pc \in {"done", "RuntimeError", "IndexError", "CudaError"}
                /\ dst # <<>>

\* C21: for distinct in-range indices, unpack_split_xy of what
\* pack_cat_gather returned gives back X and Y at every position the index
\* list names and zero at every other position.
C21_RoundTrip ==
    (AllInRange /\ Distinct /\ Unpacked) =>
        /\ pk_pc = "done"
        /\ \A b \in Batch :
             /\ \A n \in 1..shape.N :
                  x_out[b][n] = IF Named(b * Total + n - 1)
                                THEN qx[b][n] ELSE Zero
             /\ \A l \in 1..shape.L :
                  y_out[b][l] = IF Named(b * Total + shape.N + l - 1)
                                THEN qy[b][l] ELSE Zero

\* C22: for every in-range index list, repeated indices or not, row t of
\* what pack_cat_gather returns is row pos of X[b] if pos < N and row pos-N
\* of Y[b] otherwise, with b = indices[t] // (N+L), pos = indices[t] % (N+L);
\* on the fallback path as on the kernel path.
C22_PackRowsDecoded ==
    (AllInRange /\ Packed) =>
        /\ Len(dst) = Len(valid_token_indices)
        /\ \A t \in 1..Len(dst) :
             LET b == valid_token_indices[t] \div (shape.N + shape.L)
                 pos == valid_token_indices[t] % (shape.N + shape.L)
             IN  dst[t] = IF pos < shape.N THEN XRow(b, pos + 1)
                          ELSE YRow(b, pos - shape.N + 1)

\* the fallback path has packed a list that repeats an index and takes
\* rows of X and of Y
C22_Witness ==
    /\ ~USE_TRITON_PACK /\ Packed
    /\ shape = [B |-> 2, N |-> 2, L |-> 1]
    /\ valid_token_indices = <<5, 5, 0>>
    /\ dst = <<YRow(1, 1), YRow(1, 1), XRow(0, 1)>>

\* C23: the path is the kernel path exactly when TRITON_PACK is "1" and
\* triton was imported, and for the same in-range indices either path
\* returns what the other would: no call ends in an error, the packed rows
\* are those of index_select and of the kernel, and the unpacked tensors are
\* those of index_copy_ and of the kernel.
C23_PathsAgree ==
    /\ pk_pc # "import" => USE_TRITON_PACK = (TRITON_PACK = "1" /\ HAS_TRITON)
    /\ (AllInRange /\ Distinct) =>
        /\ pk_pc \notin {"RuntimeError", "IndexError", "CudaError"}
        /\ Packed => dst = index_select /\ dst = kernel_rows
        /\ pk_pc = "done" =>
               /\ x_out = split_x /\ x_out = kernel_x
               /\ y_out = split_y /\ y_out = kernel_y

\* C24: a call of pack_cat_gather or unpack_split_xy with an index < 0 or
\* >= B*(N+L) ends in an error on either path.
C24_OutOfRangeRejected ==
    (~AllInRange /\ pk_pc \notin {"import", "pack", "NameError"}) =>
        pk_pc \in {"IndexError", "CudaError"}

(* ------------- genmo/mochi/patches.py: tiled decode, blending ---------- *)

\* a pixel is a fraction <<numerator, denominator>>; Python computes the
\* same expressions in floating point
Frac(n, d) == <<n, d>>
RAdd(p, q) == <<p[1] * q[2] + q[1] * p[2], p[2] * q[2]>>
RSub(p, q) == <<p[1] * q[2] - q[1] * p[2], p[2] * q[2]>>
RMul(p, q) == <<p[1] * q[1], p[2] * q[2]>>
REq(p, q) == p[1] * q[2] = q[1] * p[2]

\* a tile (B, C, T, H, W) is taken as its H rows of W pixels
Height(tile) == Len(tile)
Width(tile) == IF Len(tile) = 0 THEN 0 ELSE Len(tile[1])

\* the tiles of the grid: two rows of two tiles
Grid == {0, 1}

\* what the decoder gave for pixel (y, x) of tile (i, j)
Pixel(i, j, y, x) == Frac(1000 * i + 100 * j + 10 * y + x, 1)

\* lines 312-337 are over: the decoder has given every tile; the tiles of
\* the last row and of the last column may be smaller than the others
BlendInit ==
    /\ CoordInit /\ ~work_complete /\ ~dir_exists
    /\ NoShards /\ NoPipe /\ ModelReady /\ NoWorker /\ NoCp /\ NoPack
    /\ NoNorm /\ NoLoop
    /\ tile_sample_min_height \in 1..MaxTile
    /\ tile_sample_min_width \in 1..MaxTile
    /\ blend_extent_height \in 0..(tile_sample_min_height - 1)
    /\ blend_extent_width \in 0..(tile_sample_min_width - 1)
    /\ \E last_h \in 1..tile_sample_min_height :
       \E last_w \in 1..tile_sample_min_width :
           rows = [i \in Grid |-> [j \in Grid |->
                     [y \in 1..(IF i = 0 THEN tile_sample_min_height
                                         ELSE last_h) |->
                      [x \in 1..(IF j = 0 THEN tile_sample_min_width
                                          ELSE last_w) |->
                          Pixel(i, j, y, x)]]]]
    /\ result_row = <<>>
    /\ result_rows = <<>>
    /\ bl_pc = [i |-> 0, j |-> 0, step |-> "blend_v"]
    /\ blended = [i \in Grid |-> [j \in Grid |-> <<>>]]
    /\ samples = <<>>

Min3(a, b, c) == Min(a, Min(b, c))

\* a weight that is 1/E at the first row of the overlap
later_weight_from_one(y, E) == Frac(y + 1, E)

\* y / blend_extent of lines 291 and 299
later_weight(y, E) == Frac(y, E)

\* 1 - y / blend_extent of lines 290 and 298
earlier_weight(y, E) == RSub(Frac(1, 1), later_weight(y, E))

\* lines 287-293; row y of the code is row y + 1 here
blend_v(a, b, blend_extent) ==
    LET E == Min3(Height(a), Height(b), blend_extent)
    IN  [y \in 1..Height(b) |-> [x \in 1..Width(b) |->
            IF y - 1 < E
            THEN RAdd(RMul(a[Height(a) - E + y][x], earlier_weight(y - 1, E)),
                      RMul(b[y][x], later_weight(y - 1, E)))
            ELSE b[y][x]]]

\* lines 295-301; column x of the code is column x + 1 here
blend_h(a, b, blend_extent) ==
    LET E == Min3(Width(a), Width(b), blend_extent)
    IN  [y \in 1..Height(b) |-> [x \in 1..Width(b) |->
            IF x - 1 < E
            THEN RAdd(RMul(a[y][Width(a) - E + x], earlier_weight(x - 1, E)),
                      RMul(b[y][x], later_weight(x - 1, E)))
            ELSE b[y][x]]]

\* lines 343-344: the seam with the tile above, blended into the tile
BlendV ==
    /\ bl_pc.step = "blend_v"
    /\ bl_pc' = [bl_pc EXCEPT !.step = "blend_h"]
    /\ IF bl_pc.i > 0
         THEN /\ rows' = [rows EXCEPT ![bl_pc.i][bl_pc.j] =
                              blend_v(rows[bl_pc.i - 1][bl_pc.j], @,
                                      blend_extent_height)]
              /\ blended' = [blended EXCEPT ![bl_pc.i][bl_pc.j] =
                                 Append(@, "v")]
         ELSE UNCHANGED <<rows, blended>>
    /\ UNCHANGED <<tile_sample_min_height, tile_sample_min_width,
                   blend_extent_height, blend_extent_width, result_row,
                   result_rows, samples>>
    /\ UNCHANGED outsideBlend

\* lines 345-346: the seam with the tile to the left
BlendH ==
    /\ bl_pc.step = "blend_h"
    /\ bl_pc' = [bl_pc EXCEPT !.step = "crop"]
    /\ IF bl_pc.j > 0
         THEN /\ rows' = [rows EXCEPT ![bl_pc.i][bl_pc.j] =
                              blend_h(rows[bl_pc.i][bl_pc.j - 1], @,
                                      blend_extent_width)]
              /\ blended' = [blended EXCEPT ![bl_pc.i][bl_pc.j] =
                                 Append(@, "h")]
         ELSE UNCHANGED <<rows, blended>>
    /\ UNCHANGED <<tile_sample_min_height, tile_sample_min_width,
                   blend_extent_height, blend_extent_width, result_row,
                   result_rows, samples>>
    /\ UNCHANGED outsideBlend

\* tile[:, :, :, :row_limit_height, :row_limit_width]
crop(tile, row_limit_height, row_limit_width) ==
    [y \in 1..Min(Height(tile), row_limit_height) |->
        [x \in 1..Min(Width(tile), row_limit_width) |-> tile[y][x]]]

\* line 347, with the limits of lines 307-308
Crop ==
    /\ bl_pc.step = "crop"
    /\ result_row' =
           Append(result_row,
                  crop(rows[bl_pc.i][bl_pc.j],
                       tile_sample_min_height - blend_extent_height,
                       tile_sample_min_width - blend_extent_width))
    /\ bl_pc' = IF bl_pc.j = 1
                THEN [bl_pc EXCEPT !.step = "cat"]
                ELSE [bl_pc EXCEPT !.j = @ + 1, !.step = "blend_v"]
    /\ UNCHANGED <<tile_sample_min_height, tile_sample_min_width,
                   blend_extent_height, blend_extent_width, rows,
                   result_rows, blended, samples>>
    /\ UNCHANGED outsideBlend

\* torch.cat(result_row, dim=4): the tiles side by side
RECURSIVE cat_w(_, _)
cat_w(tiles, n) ==
    IF n = 0 THEN [y \in 1..Height(tiles[1]) |-> <<>>]
    ELSE [y \in 1..Height(tiles[1]) |-> cat_w(tiles, n - 1)[y] \o tiles[n][y]]

\* line 348
CatRow ==
    /\ bl_pc.step = "cat"
    /\ result_rows' = Append(result_rows, cat_w(result_row, Len(result_row)))
    /\ result_row' = <<>>
    /\ bl_pc' = IF bl_pc.i = 1
                THEN [bl_pc EXCEPT !.step = "return"]
                ELSE [i |-> bl_pc.i + 1, j |-> 0, step |-> "blend_v"]
    /\ UNCHANGED <<tile_sample_min_height, tile_sample_min_width,
                   blend_extent_height, blend_extent_width, rows, blended,
                   samples>>
    /\ UNCHANGED outsideBlend

\* line 351: torch.cat(result_rows, dim=3), the rows of tiles one under
\* the other
ReturnSamples ==
    /\ bl_pc.step = "return"
    /\ samples' = result_rows[1] \o result_rows[2]
    /\ bl_pc' = [bl_pc EXCEPT !.step = "done"]
    /\ UNCHANGED <<tile_sample_min_height, tile_sample_min_width,
                   blend_extent_height, blend_extent_width, rows, result_row,
                   result_rows, blended>>
    /\ UNCHANGED outsideBlend

BlendNext ==
    \/ BlendV
    \/ BlendH
    \/ Crop
    \/ CatRow
    \/ ReturnSamples

SpecBlend == BlendInit /\ [][BlendNext]_vars

\* the tile the loop is at, before and after the step
Later == rows[bl_pc.i][bl_pc.j]
LaterAfter == rows'[bl_pc.i][bl_pc.j]

\* new = earlier * (1 - w) + later * w, said without the weights of the
\* code: new - earlier = (later - earlier) * w
Mixes(new, earlier, later, w) ==
    REq(RSub(new, earlier), RMul(RSub(later, earlier), w))

\* C25: blend_v over E = min(heights, blend_extent) rows makes overlap row y
\* of the later tile earlier * (1 - y/E) + later * (y/E), earlier being the
\* row E - y from the end of the tile above: weight 0 at the first row,
\* growing by 1/E, (E-1)/E at the last; the rows below the overlap stay.
\* blend_h does the same over columns with the tile to the left, and a tile
\* gets its vertical seam before its horizontal one.
C25_LinearBlendVerticalFirst ==
    [][/\ (bl_pc.step = "blend_v" /\ bl_pc.i > 0) =>
            LET a == rows[bl_pc.i - 1][bl_pc.j]
                E == Min3(Height(a), Height(Later), blend_extent_height)
            IN  /\ blended'[bl_pc.i][bl_pc.j] = <<"v">>
                /\ \A y \in 0..(Height(Later) - 1) :
                   \A x \in 1..Width(Later) :
                       IF y < E
                       THEN /\ Mixes(LaterAfter[y + 1][x],
                                     a[Height(a) - E + y + 1][x],
                                     Later[y + 1][x], Frac(y, E))
                            /\ y = 0 => REq(LaterAfter[1][x],
                                            a[Height(a) - E + 1][x])
                       ELSE LaterAfter[y + 1][x] = Later[y + 1][x]
       /\ (bl_pc.step = "blend_h" /\ bl_pc.j > 0) =>
            LET a == rows[bl_pc.i][bl_pc.j - 1]
                E == Min3(Width(a), Width(Later), blend_extent_width)
            IN  /\ blended'[bl_pc.i][bl_pc.j] =
                       IF bl_pc.i > 0 THEN <<"v", "h">> ELSE <<"h">>
                /\ \A y \in 1..Height(Later) :
                   \A x \in 0..(Width(Later) - 1) :
                       IF x < E
                       THEN /\ Mixes(LaterAfter[y][x + 1],
                                     a[y][Width(a) - E + x + 1],
                                     Later[y][x + 1], Frac(x, E))
                            /\ x = 0 => REq(LaterAfter[y][1],
                                            a[y][Width(a) - E + 1])
                       ELSE LaterAfter[y][x + 1] = Later[y][x + 1]
      ]_vars

\* the last tile has got both seams over two rows and two columns: its
\* second row is no longer what the decoder gave
C25_Witness ==
    /\ blended[1][1] = <<"v", "h">>
    /\ blend_extent_height = 2 /\ blend_extent_width = 2
    /\ Height(rows[1][1]) = 3 /\ Width(rows[1][1]) = 3
    /\ ~REq(rows[1][1][2][3], Pixel(1, 1, 2, 3))
    /\ rows[1][1][3][3] = Pixel(1, 1, 3, 3)

(* --------------------------- mochi/kernels/ops.py ----------------------- *)

Dtypes == {"bfloat16", "float16", "float32"}

\* the shapes the wrapper is called with: [N, D] with a gate [N], and
\* [B, M, D] with a gate [B, D]
Shapes2D == [x |-> <<2, 3>>, gate |-> <<2>>]
Shapes3D == [x |-> <<2, 4, 3>>, gate |-> <<2, 3>>]

\* a call of residual_tanh_gated_rmsnorm(x, x_res, gate): the three tensors
\* are on one device, which is a CUDA device only where CUDA is available
NormInit ==
    /\ CoordInit /\ ~work_complete /\ ~dir_exists
    /\ NoShards /\ NoPipe /\ ModelReady /\ NoWorker /\ NoCp /\ NoPack
    /\ NoBlend /\ NoLoop
    /\ \E cuda \in BOOLEAN, built \in BOOLEAN,
         dev \in {"cpu", "cuda"}, shapes \in {Shapes2D, Shapes3D},
         dx \in Dtypes, dr \in Dtypes, dg \in Dtypes :
           /\ dev = "cuda" => cuda
           /\ nm_in = [cuda_available |-> cuda, kernel_loaded |-> built,
                       x |-> [shape |-> shapes.x, dtype |-> dx,
                              device |-> dev],
                       x_res |-> [shape |-> shapes.x, dtype |-> dr,
                                  device |-> dev],
                       gate |-> [shape |-> shapes.gate, dtype |-> dg,
                                 device |-> dev]]
    /\ nm_pc = "call"
    /\ nm_kernel = "not_called"
    /\ nm_out = NoTensor

\* the condition of lines 126-129 without the dtype
UseKernelAnyDtype ==
    /\ nm_in.cuda_available
    /\ nm_in.x.device = "cuda"
    /\ nm_in.kernel_loaded

\* lines 126-129
UseKernel ==
    /\ nm_in.cuda_available
    /\ nm_in.x.device = "cuda"
    /\ nm_in.x.dtype = "bfloat16"
    /\ nm_in.kernel_loaded

\* lines 125-131 and 141: the kernel or the PyTorch implementation
NormSelect ==
    /\ nm_pc = "call"
    /\ nm_pc' = IF UseKernel THEN "fused" ELSE "pytorch"
    /\ UNCHANGED <<nm_in, nm_kernel, nm_out>>
    /\ UNCHANGED outsideNorm

\* line 131 returning: fused_residual_tanh_gated_rmsnorm, lines 72-106,
\* gives the kernel's tensor, viewed in the shape of x
FusedReturns ==
    /\ nm_pc = "fused"
    /\ nm_kernel' = "returned"
    /\ nm_out' = [shape |-> nm_in.x.shape, dtype |-> nm_in.x.dtype,
                  device |-> nm_in.x.device]
    /\ nm_pc' = "returned"
    /\ UNCHANGED nm_in
    /\ UNCHANGED outsideNorm

\* lines 132-139: the kernel call raised, a warning is given and the
\* function goes on to line 142
FusedRaises ==
    /\ nm_pc = "fused"
    /\ nm_kernel' = "raised"
    /\ nm_pc' = "pytorch"
    /\ UNCHANGED <<nm_in, nm_out>>
    /\ UNCHANGED outsideNorm

\* the dimensions of a shape from the right, 1 where the shape has none
DimFromRight(shp, k) == IF k <= Len(shp) THEN shp[Len(shp) - k + 1] ELSE 1

Max(a, b) == IF a > b THEN a ELSE b

Broadcastable(s1, s2) ==
    \A k \in 1..Max(Len(s1), Len(s2)) :
        \/ DimFromRight(s1, k) = DimFromRight(s2, k)
        \/ DimFromRight(s1, k) = 1
        \/ DimFromRight(s2, k) = 1

\* the shape of an elementwise operation on two tensors
Broadcast(s1, s2) ==
    LET n == Max(Len(s1), Len(s2))
    IN  [i \in 1..n |-> Max(DimFromRight(s1, n - i + 1),
                            DimFromRight(s2, n - i + 1))]

\* the dtype of an elementwise operation on two floating tensors
Promote(d1, d2) == IF d1 = d2 THEN d1 ELSE "float32"

\* .mean(-1, keepdim=True)
KeepDim(shp) == [i \in 1..Len(shp) |-> IF i = Len(shp) THEN 1 ELSE shp[i]]

\* .unsqueeze(1)
Unsqueeze1(shp) ==
    [i \in 1..(Len(shp) + 1) |->
        IF i = 1 THEN shp[1] ELSE IF i = 2 THEN 1 ELSE shp[i - 1]]

\* residual_tanh_gated_rmsnorm_pytorch, lines 22-32: x_normed
x_normed ==
    [shape |-> Broadcast(Broadcast(nm_in.x_res.shape,
                                   KeepDim(nm_in.x_res.shape)),
                         Unsqueeze1(nm_in.gate.shape)),
     dtype |-> Promote("float32", nm_in.gate.dtype),
     device |-> nm_in.x_res.device]

\* lines 35-36: x + x_normed.type_as(x)
residual_tanh_gated_rmsnorm_pytorch ==
    [shape |-> Broadcast(nm_in.x.shape, x_normed.shape),
     dtype |-> Promote(nm_in.x.dtype, nm_in.x.dtype),
     device |-> nm_in.x.device]

\* line 142
Pytorch ==
    /\ nm_pc = "pytorch"
    /\ IF /\ Broadcastable(nm_in.x_res.shape, Unsqueeze1(nm_in.gate.shape))
          /\ Broadcastable(nm_in.x.shape, x_normed.shape)
         THEN /\ nm_out' = residual_tanh_gated_rmsnorm_pytorch
              /\ nm_pc' = "returned"
         ELSE /\ nm_pc' = "raised"
              /\ UNCHANGED nm_out
    /\ UNCHANGED <<nm_in, nm_kernel>>
    /\ UNCHANGED outsideNorm

NormNext ==
    \/ NormSelect
    \/ FusedReturns
    \/ FusedRaises
    \/ Pytorch

SpecNorm == NormInit /\ [][NormNext]_vars

\* C26: the kernel is called only with CUDA available, x on a CUDA device,
\* x of dtype bfloat16 and the kernel loaded; the function never raises;
\* what it returns when the kernel was not called or raised is the result of
\* the PyTorch implementation; and what it returns has the shape, dtype and
\* device of x.
C26_KernelOnlyWhenUsableElseFallback ==
    /\ (nm_pc = "fused" \/ nm_kernel # "not_called") =>
           /\ nm_in.cuda_available
           /\ nm_in.x.device = "cuda"
           /\ nm_in.x.dtype = "bfloat16"
           /\ nm_in.kernel_loaded
    /\ nm_pc # "raised"
    /\ nm_pc = "returned" =>
           /\ nm_out.shape = nm_in.x.shape
           /\ nm_out.dtype = nm_in.x.dtype
           /\ nm_out.device = nm_in.x.device
           /\ nm_kernel # "returned" =>
                  nm_out = residual_tanh_gated_rmsnorm_pytorch

\* the kernel was called on a bfloat16 tensor of three dimensions, raised,
\* and the function returned all the same
C26_Witness ==
    /\ nm_kernel = "raised"
    /\ nm_pc = "returned"
    /\ nm_in.x.dtype = "bfloat16"
    /\ nm_in.gate.dtype = "float32"
    /\ nm_out.shape = <<2, 4, 3>>
    /\ nm_out.dtype = "bfloat16"

(* ------------------- coordinator.py: further properties ----------------- *)

\* pod p leaves the call through lines 66-73 and its unlink removes a file
UnlinksLockFile(p) ==
    /\ pc[p] = "finally" /\ pc'[p] = "idle"
    /\ lock_file # 0 /\ lock_file' = 0

\* C27: the lock file is removed only by the pod that acquired the lock in
\* this call, and never while another pod holds the flock on it.
C27_OnlyHolderDeletesLockFile ==
    [][\A p \in Procs :
          UnlinksLockFile(p) =>
              /\ locked[p]
              /\ flock[lock_file] \in {0, p}]_vars

\* the branches of the call in which is_work_complete() was seen true or
\* the pod's own do_work returned
CompletionSeen == {"fast", "recheck_complete", "work_done", "wait_complete"}

\* C28: a call that returned normally saw is_work_complete() true or ran
\* do_work to its end.
C28_ReturnMeansComplete ==
    \A p \in Procs : outcome[p] = "returned" => path[p] \in CompletionSeen

\* C29: only a pod whose flock attempt failed is in the wait loop; a pod that
\* acquired the lock never is.
C29_HolderNeverWaits ==
    \A p \in Procs : pc[p] \in WaitPcs => ~locked[p]

(* --------------- coordinator.py: a pod that dies in the call ------------ *)

\* A flock that outlived the process that took it.
KeptAtExit(p) == flock

\* Lines 42-45: the flock belongs to the descriptor opened in line 42; the
\* kernel closes the descriptor of a process that dies, which drops the lock.
ReleasedAtExit(p) == Released(p)

\* The pod dies somewhere between line 39 and line 73: nothing of the call
\* runs any more, so a lock file it created or locked stays in work_dir.
Crash(p) ==
    /\ pc[p] \notin {"idle", "crashed"}
    /\ flock' = ReleasedAtExit(p)
    /\ f' = [f EXCEPT ![p] = 0]
    /\ pc' = [pc EXCEPT ![p] = "crashed"]
    /\ UNCHANGED <<work_complete, dir_exists, lock_file, inodes, locked,
                   waited, exc, outcome, path, raised, calls, runs>>
    /\ UNCHANGED outsideCoord

NextCrash ==
    \/ CoordNext
    \/ \E p \in Procs : Crash(p)

\* Pods coordinating a piece of work, any of which may die on the way.
SpecCrash == Init /\ [][NextCrash]_vars

\* a pod that is alive holds the advisory lock on inode i
LiveHolder(i) == flock[i] # 0 /\ pc[flock[i]] # "crashed"

\* pod p executes the statement at s
StepsFrom(p, s) == pc[p] = s /\ pc'[p] \notin {s, "crashed"}

\* C30: a lock file whose holder died blocks nobody: a pod whose flock call
\* (line 45) runs while no live pod holds the lock on the file it opened
\* acquires the lock, and with is_work_complete() false at line 49 it runs
\* do_work.
C30_StaleLockFileDoesNotBlock ==
    [][\A p \in Procs :
          /\ (StepsFrom(p, "flock") /\ ~LiveHolder(f[p]))
                 => (pc'[p] = "recheck" /\ locked'[p])
          /\ (StepsFrom(p, "recheck") /\ ~work_complete)
                 => pc'[p] = "do_work"]_vars

\* A pod died inside do_work, its lock file is still the one work_dir names,
\* and another pod has locked that same file and runs do_work.
C30_Witness ==
    \E p, q \in Procs :
        /\ pc[p] = "crashed" /\ path[p] = "do_work"
        /\ pc[q] = "do_work"
        /\ inodes = 1 /\ lock_file = 1 /\ f[q] = 1
        /\ ~work_complete

(* ------------------ coordinator.py: every call ends --------------------- *)

\* One statement of pod p's call, once the call has begun.
Step(p) ==
    \/ Open(p)
    \/ Flock(p)
    \/ Recheck(p, work_complete)
    \/ DoWorkSucceeds(p)
    \/ \E e \in WorkErrors : DoWorkFails(p, e)
    \/ WaitCheck(p, work_complete)
    \/ WaitExists(p)
    \/ Close(p)
    \/ Finally(p)

\* Every pod is a process of its own that keeps running its call unless it
\* dies: do_work and asyncio.sleep return, a pod may die at any point.
SpecCrashFair ==
    Init /\ [][NextCrash]_vars /\ \A p \in Procs : WF_vars(Step(p))

\* ceil(max_wait_seconds / check_interval_seconds)
MaxPolls ==
    (max_wait_seconds + check_interval_seconds - 1) \div check_interval_seconds

\* is_complete() calls of line 89 made so far by the wait loop of pod p: one
\* per sleep counted in line 100, and the one whose answer the pod is acting
\* on in lines 94-100.
Polls(p) ==
    (waited[p] \div check_interval_seconds)
        + (IF pc[p] = "exists" THEN 1 ELSE 0)

\* C31: a wait loop polls is_complete() at most
\* ceil(max_wait_seconds / check_interval_seconds) times, and every call that
\* began ends (returns, raises, or its pod dies), whether or not the lock
\* holder died or the work was ever completed.
C31_EveryCallTerminates ==
    /\ [](\A p \in Procs : Polls(p) <= MaxPolls)
    /\ \A p \in Procs :
           (pc[p] # "idle") ~> (pc[p] \in {"idle", "crashed"})

\* The holder died inside do_work, nobody completed the work, and a waiter's
\* call ended with TimeoutError.
C31_Witness ==
    \E p, q \in Procs :
        /\ pc[q] = "crashed" /\ path[q] = "do_work"
        /\ ~work_complete
        /\ pc[p] = "idle" /\ path[p] = "wait_timeout"
        /\ outcome[p] = "TimeoutError"

(* --------------------- sharding.py: a successful creation --------------- *)

\* create_missing_shards of pod p returns without error (lines 195-200, 102)
CreationReturns(p) == pc[p] = "validate" /\ path'[p] = "work_done"

\* C32: when create_missing_shards returns without error, the .metadata
\* file and the file of every rank are in shards_dir, so all_shards_exist()
\* is true.
C32_SuccessfulCreationIsComplete ==
    [][\A p \in Pods :
          CreationReturns(p) =>
              /\ all_shards_exist'
              /\ dir_exists' /\ metadata' /\ rank_files' = Ranks]_vars

(* ------- cp_conv.py, patches.py: the ranks inside the collectives ------- *)

\* a group in which the last rank sends to rank 0 as well
sends_in_ring(r) == TRUE

\* cp_pass_frames, line 31: every rank but the last sends
sends(r) == r < cp_size - 1

\* cp_pass_frames, lines 27-34, with a blocking dist.send: the tail is
\* handed to the next rank and the call has not returned yet; a rank that
\* does not send goes on to the receive of line 37
PostSend(r) ==
    /\ r \in CpRanks
    /\ cp_op = "cp_pass_frames"
    /\ cp_pc[r] = "start"
    /\ frames_to_send # 0 /\ cp_size # 1
    /\ IF sends(r)
         THEN IF Len(cp_x[r]) >= frames_to_send
              THEN /\ chan' = [chan EXCEPT ![(r + 1) % cp_size] =
                                   last_frames(cp_x[r], frames_to_send)]
                   /\ cp_sent' = [cp_sent EXCEPT ![r] = @ + 1]
                   /\ cp_pc' = [cp_pc EXCEPT ![r] = "send"]
              ELSE /\ cp_pc' = [cp_pc EXCEPT ![r] = "AssertionError"]
                   /\ UNCHANGED <<chan, cp_sent>>
         ELSE /\ cp_pc' = [cp_pc EXCEPT ![r] = "recv"]
              /\ UNCHANGED <<chan, cp_sent>>
    /\ UNCHANGED <<cp_op, cp_size, frames_to_send, cp_x, cp_out, cp_recv>>
    /\ UNCHANGED outsideCp

\* line 34 returns: the next rank has received the tail
SendReturns(r) ==
    /\ r \in CpRanks
    /\ cp_op = "cp_pass_frames"
    /\ cp_pc[r] = "send"
    /\ chan[(r + 1) % cp_size] = <<>>
    /\ cp_pc' = [cp_pc EXCEPT ![r] = "recv"]
    /\ UNCHANGED <<cp_op, cp_size, frames_to_send, cp_x, cp_out, chan,
                   cp_sent, cp_recv>>
    /\ UNCHANGED outsideCp

\* the ranks that have called a collective: those inside it and those
\* that have left it
InAllGatherT == {"all_gather_T", "all_gather_x", "done"}
InAllGatherX == {"all_gather_x", "done"}

\* a list in which every rank finds its own tensor first
all_gather_own_first(bufs, r) ==
    [i \in CpRanks |-> bufs[(r + i) % cp_size]]

\* dist.all_gather(gathered_x, x) of line 92 on rank r: the list holds the
\* tensor of rank i at index i
all_gather(bufs, r) == [i \in CpRanks |-> bufs[i]]

\* gather_all_frames, lines 66-81, on rank r with the tensor xs: a single
\* rank returns xs; otherwise the rank calls the all_gather of the frame
\* counts
EnterGather(r, xs) ==
    IF cp_size = 1
    THEN /\ CpReturn(r, xs)
         /\ chan' = chan
    ELSE /\ cp_pc' = [cp_pc EXCEPT ![r] = "all_gather_T"]
         /\ chan' = [chan EXCEPT ![r] = xs]
         /\ cp_out' = cp_out

\* gather_all_frames is called with the rank's tensor
CallGather(r) ==
    /\ r \in CpRanks
    /\ cp_op = "gather_all_frames"
    /\ cp_pc[r] = "start"
    /\ EnterGather(r, cp_x[r])
    /\ UNCHANGED <<cp_op, cp_size, frames_to_send, cp_x, cp_sent, cp_recv>>
    /\ UNCHANGED outsideCp

\* lines 81-89: the all_gather of the frame counts returns once every rank
\* of the group has called it; the rank pads and calls the all_gather of
\* the data
AllGatherT(r) ==
    /\ r \in CpRanks
    /\ cp_pc[r] = "all_gather_T"
    /\ \A i \in CpRanks : cp_pc[i] \in InAllGatherT
    /\ cp_pc' = [cp_pc EXCEPT ![r] = "all_gather_x"]
    /\ UNCHANGED <<cp_op, cp_size, frames_to_send, cp_x, cp_out, chan,
                   cp_sent, cp_recv>>
    /\ UNCHANGED outsideCp

\* lines 92-98: the all_gather of the data returns once every rank has
\* called it; the rank slices and concatenates what it received
AllGatherX(r) ==
    /\ r \in CpRanks
    /\ cp_pc[r] = "all_gather_x"
    /\ \A i \in CpRanks : cp_pc[i] \in InAllGatherX
    /\ CpReturn(r, gather_all_frames(all_gather(chan, r)))
    /\ UNCHANGED <<cp_op, cp_size, frames_to_send, cp_x, chan, cp_sent,
                   cp_recv>>
    /\ UNCHANGED outsideCp

\* decode_latents_tiled_distributed, lines 372-377: the rank takes its
\* slice of z
TakeSlice(r) ==
    /\ r \in CpRanks
    /\ cp_op = "decode_latents_tiled_distributed"
    /\ cp_pc[r] = "start"
    /\ cp_pc' = [cp_pc EXCEPT ![r] = "tiled_decode"]
    /\ cp_out' = [cp_out EXCEPT ![r] =
                      IF cp_size > 1 THEN tensor_split(cp_x[r], cp_size, r)
                                     ELSE cp_x[r]]
    /\ UNCHANGED <<cp_op, cp_size, frames_to_send, cp_x, chan, cp_sent,
                   cp_recv>>
    /\ UNCHANGED outsideCp

\* _run_tiled_decode_on_slice, lines 312-337: the tiles of a slice of T
\* frames are decoded in ceil(T / frame_batch_size) batches and
\* torch.cat(temporal, dim=2) joins them; for T = 0 the list is empty and
\* torch.cat raises RuntimeError
cat_temporal(zs) == IF Len(zs) = 0 THEN "RuntimeError" ELSE "tensor"

\* the decoded frame of latent frame z
Decoded(z) == <<"sample", z>>

\* lines 379-393: the local tiled decode, then gather_all_frames of the
\* decoded slice
TiledDecode(r) ==
    /\ r \in CpRanks
    /\ cp_op = "decode_latents_tiled_distributed"
    /\ cp_pc[r] = "tiled_decode"
    /\ IF cat_temporal(cp_out[r]) = "RuntimeError"
         THEN /\ cp_pc' = [cp_pc EXCEPT ![r] = "RuntimeError"]
              /\ UNCHANGED <<cp_out, chan>>
         ELSE EnterGather(r, [i \in 1..Len(cp_out[r]) |->
                                 Decoded(cp_out[r][i])])
    /\ UNCHANGED <<cp_op, cp_size, frames_to_send, cp_x, cp_sent, cp_recv>>
    /\ UNCHANGED outsideCp

\* what rank r does next
RankStep(r) ==
    \/ PassNothing(r)
    \/ PostSend(r)
    \/ SendReturns(r)
    \/ PassRecv(r)
    \/ CallGather(r)
    \/ AllGatherT(r)
    \/ AllGatherX(r)
    \/ TakeSlice(r)
    \/ TiledDecode(r)

CollNext == \E r \in 0..(MaxCpSize - 1) : RankStep(r)

\* The ranks of a group, each a process of its own that keeps running
\* unless it is blocked in a send, a receive or a collective.
SpecColl ==
    /\ CpInit
    /\ [][CollNext]_vars
    /\ \A r \in 0..(MaxCpSize - 1) : WF_vars(RankStep(r))

\* every rank of the group has returned from the function
AllRanksDone == \A r \in CpRanks : cp_pc[r] = "done"

\* C33: with a latent of at least one frame and more than one rank, every
\* rank completes its local tiled decode, calls the all_gather of the frame
\* counts and then the all_gather of the data, and returns: no rank stays
\* blocked in a collective that another rank never calls.
C33_EveryRankReachesBothGathers ==
    (/\ cp_op = "decode_latents_tiled_distributed"
     /\ cp_size > 1
     /\ Len(cp_x[0]) >= 1) => <>AllRanksDone

\* C34: when more than one rank calls cp_pass_frames with the same
\* frames_to_send > 0 and every rank that sends has that many frames, every
\* rank returns, the sends being blocking and made before the receives.
C34_PassFramesReturnsOnEveryRank ==
    (/\ cp_op = "cp_pass_frames"
     /\ cp_size > 1
     /\ frames_to_send > 0
     /\ \A r \in CpRanks : sends(r) => Len(cp_x[r]) >= frames_to_send)
        => <>AllRanksDone

\* three ranks have each sent, waited for the send to return, and received
C34_Witness ==
    /\ cp_op = "cp_pass_frames"
    /\ cp_size = 3 /\ frames_to_send = 2
    /\ AllRanksDone
    /\ cp_sent[0] = 1 /\ cp_sent[1] = 1 /\ cp_sent[2] = 0
    /\ cp_recv[0] = 0 /\ cp_recv[1] = 1 /\ cp_recv[2] = 1
    /\ \A r \in CpRanks : chan[r] = <<>>

\* C35: the ranks that have returned from gather_all_frames hold the same
\* tensor, the frames of rank 0 first, so the result of the request is the
\* same whichever rank's output is returned.
C35_EveryRankHoldsTheSameFrames ==
    \A r, q \in CpRanks :
        (/\ cp_op \in {"gather_all_frames",
                       "decode_latents_tiled_distributed"}
         /\ cp_pc[r] = "done" /\ cp_pc[q] = "done")
            => cp_out[r] = cp_out[q]

\* three ranks with 2, 0 and 1 frames have gone through both collectives
\* and hold three frames each
C35_Witness ==
    /\ cp_op = "gather_all_frames"
    /\ cp_size = 3
    /\ Len(cp_x[0]) = 2 /\ Len(cp_x[1]) = 0 /\ Len(cp_x[2]) = 1
    /\ AllRanksDone
    /\ \A r \in CpRanks : Len(cp_out[r]) = 3 /\ cp_out[r][1] = cp_x[0][1]

(* ------------- inference_engine.py: a request that fails ---------------- *)

\* mochi_model.py lines 173-178 and inference_engine.py lines 51-70: the
\* model is initialized and the request has no prompt; generate() raises
\* ValueError before it reaches the pipeline, and the except block of
\* process() calls self.model.cleanup() before it raises.
GenerateInvalid(c) ==
    /\ caller_pc[c] = "idle"
    /\ Accepts
    /\ gen_outcome' = [gen_outcome EXCEPT ![c] = "ValueError"]
    /\ cleanup
    /\ UNCHANGED <<init_pc, init_outcome, loaded>>
    /\ UNCHANGED <<caller_pc, call_id, kwargs, started, requests>>
    /\ UNCHANGED outsideLife

EngineNext ==
    \/ LifeNext
    \/ GenerateInvalid(MainCaller)

\* The engine from construction to teardown, given requests with and
\* without a prompt.
SpecEngine == LifeInit /\ [][EngineNext]_vars

\* process() raises for the request of caller c
ProcessRaises(c) ==
    /\ gen_outcome'[c] # gen_outcome[c]
    /\ gen_outcome'[c] \in {"ValueError", "RayTaskError"}

\* C36: a request that fails leaves an initialized engine initialized, with
\* its pipeline, so that the outcome of the next valid request does not
\* depend on it.
C36_FailedRequestLeavesEngineInitialized ==
    [][(initialized /\ ProcessRaises(MainCaller))
          => (initialized' /\ pipeline' # "None")]_vars

(* ------------------ main.py: the loop and the shutdown ------------------ *)

\* what start() and _process_loop never touch besides the worker and the
\* model
outsideLoop ==
    <<coordVars, shardVars, cpVars, packVars, blendVars, normVars, genVars>>

\* lines 55-57: SIGTERM or SIGINT arrives, the handler clears self.running
ShutdownHandler ==
    /\ worker_running
    /\ loop_pc # "exited"
    /\ worker_running' = FALSE
    /\ UNCHANGED <<current_jobs, job_pc, body_ok, job_status, job_error,
                   failed_with, swallowed, deletes, errors, successes>>
    /\ UNCHANGED <<loop_pc, pipeVars, lifeVars>>
    /\ UNCHANGED outsideLoop

\* a test that lets the loop poll with every slot taken
room_for_one_more == current_jobs <= max_concurrent_jobs

\* line 102, negated: a slot is free
has_room == current_jobs < max_concurrent_jobs

\* lines 100-113: self.running is set and a slot is free, the loop calls
\* receive_message and waits for the answer
Poll ==
    /\ loop_pc = "top"
    /\ worker_running
    /\ has_room
    /\ loop_pc' = "polling"
    /\ UNCHANGED <<workerVars, pipeVars, lifeVars>>
    /\ UNCHANGED outsideLoop

\* lines 115-117: the answer holds no message
PollEmpty ==
    /\ loop_pc = "polling"
    /\ loop_pc' = "top"
    /\ UNCHANGED <<workerVars, pipeVars, lifeVars>>
    /\ UNCHANGED outsideLoop

\* lines 115-127: the answer holds message m; a task is created for it
\* and counted
PollReceives(m) ==
    /\ loop_pc = "polling"
    /\ job_pc[m] = "queued"
    /\ job_pc' = [job_pc EXCEPT ![m] = "parse"]
    /\ current_jobs' = current_jobs + 1
    /\ loop_pc' = "top"
    /\ UNCHANGED <<worker_running, body_ok, job_status, job_error,
                   failed_with, swallowed, deletes, errors, successes>>
    /\ UNCHANGED <<pipeVars, lifeVars>>
    /\ UNCHANGED outsideLoop

\* lines 100 and 71-75, inference_engine.py lines 72-74: self.running is
\* cleared, the loop ends, the finally of start() cancels the monitor and
\* awaits inference_engine.cleanup(), which never suspends; start() and
\* main() return
LoopEnds ==
    /\ loop_pc = "top"
    /\ ~worker_running
    /\ loop_pc' = "exited"
    /\ cleanup
    /\ UNCHANGED <<init_pc, init_outcome, loaded, gen_outcome>>
    /\ UNCHANGED <<caller_pc, call_id, kwargs, started, requests>>
    /\ UNCHANGED workerVars
    /\ UNCHANGED outsideLoop

\* the statements of _process_message at which a task waits
Awaiting == {"parse", "get_job", "set_processing", "process", "upload",
             "set_completed", "except"}

\* line 271: asyncio.run(main()) cancels the tasks that are left when
\* main() has returned; CancelledError is raised at the await the task
\* waits in, passes `except Exception` (line 181) and reaches the finally
\* of line 197
Cancel(m) ==
    /\ loop_pc = "exited"
    /\ job_pc[m] \in Awaiting
    /\ job_pc' = [job_pc EXCEPT ![m] = "finally"]
    /\ failed_with' = [failed_with EXCEPT ![m] = "CancelledError"]
    /\ UNCHANGED <<worker_running, current_jobs, body_ok, job_status,
                   job_error, swallowed, deletes, errors, successes>>
    /\ UNCHANGED <<loop_pc, pipeVars, lifeVars>>
    /\ UNCHANGED outsideLoop

\* a statement of _process_message(m), for as long as the event loop runs
\* main()
TaskStep(m) ==
    /\ loop_pc # "exited"
    /\ \/ Parse(m)
       \/ GetJobData(m)
       \/ UpdateProcessing(m)
       \/ Process(m)
       \/ UploadResult(m)
       \/ UpdateCompleted(m)
       \/ Except(m)

ShutdownNext ==
    \/ ShutdownHandler
    \/ Poll
    \/ PollEmpty
    \/ LoopEnds
    \/ \E m \in Messages :
          \/ PollReceives(m)
          \/ TaskStep(m)
          \/ DeleteMessage(m)
          \/ Cancel(m)

\* The worker from the start of its loop to the end of asyncio.run.
SpecShutdown == WorkerInit /\ [][ShutdownNext]_vars

\* the messages received whose task has not finished
InFlight == {m \in Messages : job_pc[m] \notin {"queued", "done"}}

\* C37: once self.running is cleared no message is received, and when the
\* inference engine is cleaned up every job that was received has finished
\* and its message has been deleted.
C37_ShutdownDrainsBeforeCleanup ==
    [][/\ ~worker_running =>
             \A m \in Messages : job_pc[m] = "queued" => job_pc'[m] = "queued"
       /\ (initialized /\ ~initialized') => InFlight = {}]_vars

\* C38: current_jobs stays between 0 and max_concurrent_jobs and is the
\* number of tasks started and not finished; a message is received only
\* while current_jobs is below max_concurrent_jobs.
C38_CurrentJobsCountsTasksInFlight ==
    /\ [](/\ 0 <= current_jobs /\ current_jobs <= max_concurrent_jobs
          /\ current_jobs = Cardinality(InFlight))
    /\ [][\A m \in Messages :
             (job_pc[m] = "queued" /\ job_pc'[m] # "queued")
                 => current_jobs < max_concurrent_jobs]_vars

\* every slot is taken and the loop, still running, leaves a message in
\* the queue
C38_Witness ==
    /\ current_jobs = max_concurrent_jobs
    /\ Cardinality(InFlight) = max_concurrent_jobs
    /\ worker_running /\ loop_pc = "top"
    /\ \E m \in Messages : job_pc[m] = "queued"
    /\ ~ENABLED Poll

MaxFrames == 30

\* what generate() never touches before it calls the pipeline
outsideGen ==
    <<coordVars, shardVars, pipeVars, lifeVars, workerVars, cpVars, packVars,
      blendVars, normVars, loopVars>>

\* generate(input_data) is called on an initialized model, with or without
\* a prompt and with any num_frames (line 182 reads it with int())
GenInit ==
    /\ CoordInit /\ ~work_complete /\ ~dir_exists
    /\ NoShards /\ NoPipe /\ ModelReady /\ NoWorker /\ NoCp /\ NoPack
    /\ NoBlend /\ NoNorm
    /\ loop_pc = "top"
    /\ \E p \in {"", "a prompt"}, n \in 0..MaxFrames :
         input_data = [prompt |-> p, num_frames |-> n]
    /\ num_frames = 1
    /\ gen_pc = "start"

\* lines 173-182: the model is initialized; without a prompt ValueError,
\* otherwise the parameters are read from input_data
ReadParameters ==
    /\ gen_pc = "start"
    /\ IF input_data.prompt = ""
       THEN /\ gen_pc' = "ValueError"
            /\ num_frames' = num_frames
       ELSE /\ gen_pc' = "read"
            /\ num_frames' = input_data.num_frames
    /\ UNCHANGED input_data
    /\ UNCHANGED outsideGen

\* lines 189-194: (num_frames - 1) must be divisible by 6; // is the floor
\* division
valid_frames(n) == (((n - 1) \div 6) + 1) * 6 + 1

AdjustFrames ==
    /\ gen_pc = "read"
    /\ num_frames' = IF (num_frames - 1) % 6 # 0
                      THEN valid_frames(num_frames)
                      ELSE num_frames
    /\ gen_pc' = "pipeline"
    /\ UNCHANGED input_data
    /\ UNCHANGED outsideGen

GenNext == ReadParameters \/ AdjustFrames

\* One call of generate() up to the call of the pipeline.
SpecGen == GenInit /\ [][GenNext]_vars

\* the frame counts the pipeline takes
ValidCounts == {v \in 1..(MaxFrames + 6) : (v - 1) % 6 = 0}

Distance(a, b) == IF a < b THEN b - a ELSE a - b

\* C40: the num_frames the pipeline is called with has (num_frames - 1)
\* divisible by 6; it is the requested value when that one is valid, and
\* otherwise the valid count nearest to the requested value.
C40_NearestValidFrameCount ==
    gen_pc = "pipeline" =>
        /\ (num_frames - 1) % 6 = 0
        /\ (input_data.num_frames - 1) % 6 = 0
               => num_frames = input_data.num_frames
        /\ \A v \in ValidCounts :
               Distance(num_frames, input_data.num_frames)
                   <= Distance(v, input_data.num_frames)

====
